---- MODULE Spec2Model ----
(***************************************************************************)
(* Data link layer protocol engine (capa-enlace): sliding window manager,  *)
(* acknowledgment manager and the DataLinkLayer coordinator, for a sender  *)
(* peer "A" and a receiver peer "B" joined by two physical channels.       *)
(***************************************************************************)
EXTENDS Integers, Sequences, FiniteSets, TLC

\* ---------------------------------------------------------------- constants

WINDOW_SIZE == 8
MAX_SEQ_NUM == 15
MAX_RETRIES == 3
HEARTBEAT_INTERVAL == 5000
\* ConnectionManager.heartbeatTimeoutMs
heartbeatTimeoutMs == HEARTBEAT_INTERVAL * 3

SeqNums == 0..MAX_SEQ_NUM

\* a receive-buffer slot holding null, and the absence of an item in hand
NoData == 0
\* a timer field holding null, and a time field holding null
NoTimer == 0
NoTime == 0
\* Date.now() when the peer is constructed
StartTime == 1000

\* ------------------------------------------------------------------- bounds

\* payloads the network layer of A may hand to sendToNetwork
MaxPayloads == 2
\* retransmission timer expiries in one behaviour of the two-peer system
MaxTimeouts == 3
\* frames the channel may lose or duplicate in one behaviour
MaxFaults == 1
\* payloads and timer expiries where the sequence numbers wrap around
WrapPayloads == 17
WrapTimeouts == 2
\* items that may wait in sendQueue
MaxQueue == 1
\* frames in flight per channel direction
MaxInFlight == 2
\* sequence numbers 0..MaxAckSeq used when the ACK engine is driven alone
MaxAckSeq == 1
\* cap on the count of transmissions observed per pending frame
MaxTx == 5
\* API calls and received frames when one peer is driven alone
MaxCalls == 4
\* Date.now() up to which the heartbeat interval of a peer driven alone is
\* followed
MaxTime == 6001
\* Date.now() up to which the heartbeat interval of a connected peer whose
\* remote may have gone silent is followed
BeatMaxTime == 21004
\* frames received by that peer
BeatCalls == 2
\* payloads handed to sendToNetwork by the application of a peer whose
\* window is full, the first WINDOW_SIZE of them unacknowledged
FullPayloads == 10
\* API calls and received frames of that peer once its window is full
FullCalls == 4
\* leading byte positions of a frame the channel may corrupt
MaxDataLen == 2
\* payloads, timer expiries and losses of the run in which a frame is given up
FailPayloads == 2
FailTimeouts == 3
FailFaults == 3
\* time up to which A's heartbeat interval is followed, and frames delivered,
\* when two peers exchange heartbeats
EchoMaxTime == 15002
EchoCalls == 8
\* calls and frames fed to a peer that is handed payloads above MAX_DATA
LargeCalls == 3
\* DATA frames handed to a receiver driven alone
MaxRecvCalls == 3
MaxCorruptPos == 9

\* ---------------------------------------------------------------- variables

VARIABLES
  state,          \* ConnectionManager.state of each peer
  sendQueue,      \* A: DataLinkLayer.sendQueue (payloads, oldest first)
  isTransmitting, \* A: DataLinkLayer.isTransmitting
  inHand,         \* A: payload shifted off the queue, waiting for window space
  completion,     \* A: outcome of the promise of each accepted sendToNetwork
  accepted,       \* A: number of payloads accepted by sendToNetwork so far
  sendBase,       \* A: WindowManager.sendBase
  nextSeqNum,     \* A: WindowManager.nextSeqNum
  windowSize,     \* WindowManager.windowSize
  pendingAcks,    \* A: AcknowledgmentManager.pendingAcks
  timers,         \* A: live retransmission timers, handle -> seqNum
  expectedSeqNum, \* B: WindowManager.expectedSeqNum
  receiveBuffer,  \* B: WindowManager.receiveBuffer
  chanAB,         \* frames handed to the physical layer by A, not yet at B
  chanBA,         \* frames handed to the physical layer by B, not yet at A
  wmDelivered,    \* B: frames returned by deliverFramesInOrder, in order
  upcalls,        \* B: data_received events seen by the network layer
  failedFrames,   \* A: payloads of the frames reported by frame_failed
  txCount,        \* A: times the frame registered for a seq was transmitted
  nakSeen,        \* A: seqs whose current registration has received a NAK
  ackEvent,       \* A: last event emitted by the acknowledgment manager
  lastOp,         \* last operation of a component driven alone
  timeoutsUsed,   \* timer expiries so far
  lossUsed,       \* frames lost so far
  lost,           \* the frames lost, each with its destination and the
                  \* timer expiries before the loss
  dupUsed,        \* frames duplicated so far
  connectionTimeout,     \* A: ConnectionManager.connectionTimeout (0: null)
  connTimers,            \* A: live 10 s timers of connect(), oldest first
  connAckListeners,      \* A: once('conn_ack_received') listeners, in order
  rejectedListeners,     \* A: once('connection_rejected') listeners, in order
  connectResult,         \* A: outcome of the promise of each connect()
  discTimers,            \* A: live 5 s timers of disconnect(), oldest first
  discAckListeners,      \* A: once('disc_ack_received') listeners, in order
  disconnectResult,      \* A: outcome of the promise of each disconnect()
  dropTimers,            \* A: live 100 ms timers of handleDisconnectionRequest
  heartbeatTimer,        \* A: the heartbeat interval is running
  nextBeat,              \* A: time the heartbeat interval is due next (ms)
  lastHeartbeatReceived, \* A: ConnectionManager.lastHeartbeatReceived (ms)
  now,                   \* Date.now() (ms)
  disconnectedEvents,    \* A: 'disconnected' events emitted so far
  lastTx,                \* A: frames handed to the physical layer by the
                         \*    last step of a peer driven alone
  rxEvent,               \* A: event emitted by the last receiveFromPhysical
  rxCrc,                 \* whether the last raw frame received carried the
                         \*    CRC of its content
  rxData,                \* the DATA frame last handed to processDataFrame
                         \*    of a receiver driven alone
  sendErrors,            \* A: sendToNetwork calls failed with NOT_CONNECTED
  callsUsed,             \* calls and frames fed to a peer driven alone
  codecIn,               \* FrameBuilder: the type, seqNum and data handed in
  codecOut,              \* FrameBuilder: the bytes built and what reading
                         \*    them back returned
  adjustIn               \* WindowManager: the rtt (ms) and the lossRate (in
                         \*    1/10000) last handed to adjustWindowSize

vars == <<state, sendQueue, isTransmitting, inHand, completion, accepted,
          sendBase, nextSeqNum, windowSize, pendingAcks, timers,
          expectedSeqNum, receiveBuffer, chanAB, chanBA, wmDelivered,
          upcalls, failedFrames, txCount, nakSeen, ackEvent, lastOp,
          timeoutsUsed, lossUsed, lost, dupUsed, connectionTimeout, connTimers,
          connAckListeners, rejectedListeners, connectResult, discTimers,
          discAckListeners, disconnectResult, dropTimers, heartbeatTimer,
          nextBeat, lastHeartbeatReceived, now, disconnectedEvents, lastTx,
          rxEvent, rxCrc, rxData, sendErrors, callsUsed, codecIn, codecOut,
          adjustIn>>

\* the ConnectionManager's fields besides state
cmVars == <<connectionTimeout, connTimers, connAckListeners,
            rejectedListeners, connectResult, discTimers, discAckListeners,
            disconnectResult, dropTimers, heartbeatTimer, nextBeat,
            lastHeartbeatReceived, now, disconnectedEvents>>
\* what a peer driven alone is seen to do
rxVars == <<rxEvent, rxCrc, rxData>>
ioVars == <<lastTx, rxVars, sendErrors, callsUsed>>
\* the frame builder and the window adjustment exercised on their own
codecVars == <<codecIn, codecOut, adjustIn>>
connVars == <<state, cmVars, ioVars, codecVars>>
queueVars == <<sendQueue, isTransmitting, inHand, completion, accepted>>
sendWinVars == <<sendBase, nextSeqNum>>
ackVars == <<pendingAcks, timers>>
recvVars == <<expectedSeqNum, receiveBuffer>>
chanVars == <<chanAB, chanBA>>
logVars == <<wmDelivered, upcalls, failedFrames>>
ackObsVars == <<txCount, nakSeen>>
budgetVars == <<timeoutsUsed, lossUsed, lost, dupUsed>>

\* ------------------------------------------------------------ Utils helpers

UtilsNextSeqNum(seqNum) == (seqNum + 1) % (MAX_SEQ_NUM + 1)

seqNumDiff(a, b) ==
  LET diff == (a - b + MAX_SEQ_NUM + 1) % (MAX_SEQ_NUM + 1)
  IN  IF diff > (MAX_SEQ_NUM + 1) \div 2
      THEN diff - (MAX_SEQ_NUM + 1)
      ELSE diff

\* ------------------------------------------------- WindowManager, send side

canSend(base, next, wsize) == seqNumDiff(next, base) < wsize

\* a getNextSeqNum that hands out a seq whether the window has space or not
getNextSeqNumIgnoresWindow(base, next, wsize) ==
  [seqNum |-> next, nextSeqNum |-> UtilsNextSeqNum(next)]

\* getNextSeqNum: the seq handed out, or -1 for null (window full)
getNextSeqNum(base, next, wsize) ==
  IF ~canSend(base, next, wsize)
  THEN [seqNum |-> -1, nextSeqNum |-> next]
  ELSE [seqNum |-> next, nextSeqNum |-> UtilsNextSeqNum(next)]

\* a processAck without the out-of-window test
processAckAnyDistance(base, wsize, ackSeqNum) ==
  LET diff == seqNumDiff(ackSeqNum, base)
  IN  IF diff < 0
      THEN [action |-> "duplicate", windowSlid |-> FALSE,
            oldBase |-> base, newBase |-> base]
      ELSE [action |-> "accepted", windowSlid |-> TRUE,
            oldBase |-> base, newBase |-> UtilsNextSeqNum(ackSeqNum)]

processAck(base, wsize, ackSeqNum) ==
  LET diff == seqNumDiff(ackSeqNum, base)
  IN  IF diff < 0
      THEN [action |-> "duplicate", windowSlid |-> FALSE,
            oldBase |-> base, newBase |-> base]
      ELSE IF diff >= wsize
      THEN [action |-> "out_of_window", windowSlid |-> FALSE,
            oldBase |-> base, newBase |-> base]
      ELSE [action |-> "accepted", windowSlid |-> TRUE,
            oldBase |-> base, newBase |-> UtilsNextSeqNum(ackSeqNum)]

\* ---------------------------------------------------- AcknowledgmentManager

\* adjustWindowSize, lossRate in 1/10000: Math.floor(windowSize * 0.7) is
\* (7 * windowSize) \div 10 for the window sizes 1..8
adjustWindowSize(wsize, rtt, lossRate) ==
  IF lossRate > 500
  THEN IF (7 * wsize) \div 10 > 1 THEN (7 * wsize) \div 10 ELSE 1
  ELSE IF lossRate > 100
  THEN IF wsize - 1 > 1 THEN wsize - 1 ELSE 1
  ELSE IF rtt < 100 /\ lossRate < 10
  THEN IF wsize + 1 < WINDOW_SIZE THEN wsize + 1 ELSE WINDOW_SIZE
  ELSE wsize

DataFrame(seqNum, data) == [type |-> "DATA", seqNum |-> seqNum, data |-> data]
AckFrame(seqNum) == [type |-> "ACK", seqNum |-> seqNum, data |-> NoData]

Event(name, seqNum, retries) ==
  [name |-> name, seqNum |-> seqNum, retries |-> retries]
NoEvent == Event("none", 0, 0)

EmptyMap == [x \in {} |-> 0]

\* clearTimeout(handle): cancelling a handle that is not live does nothing
clearTimeout(tm, handle) == [h \in DOMAIN tm \ {handle} |-> tm[h]]

\* setTimeout(() => handleAckTimeout(seqNum, ...), ACK_TIMEOUT)
setTimeout(tm, seqNum) ==
  LET handle == CHOOSE h \in 0..Cardinality(DOMAIN tm) : h \notin DOMAIN tm
  IN  [handle |-> handle, timers |-> (handle :> seqNum) @@ tm]

AckResult(pend, tm, out, ev) ==
  [pendingAcks |-> pend, timers |-> tm, out |-> out, ev |-> ev]

\* registerPendingAck that forgets to cancel the timer of an existing entry
registerPendingAckKeepsOldTimer(pend, tm, seqNum, frame) ==
  LET t == setTimeout(tm, seqNum)
      entry == [frame |-> frame, retries |-> 0, timeout |-> t.handle]
  IN  AckResult((seqNum :> entry) @@ pend, t.timers, <<>>,
                Event("ack_registered", seqNum, 0))

registerPendingAck(pend, tm, seqNum, frame) ==
  LET tm1 == IF seqNum \in DOMAIN pend
             THEN clearTimeout(tm, pend[seqNum].timeout)
             ELSE tm
      t == setTimeout(tm1, seqNum)
      entry == [frame |-> frame, retries |-> 0, timeout |-> t.handle]
  IN  AckResult((seqNum :> entry) @@ pend, t.timers, <<>>,
                Event("ack_registered", seqNum, 0))

\* a handleReceivedAck that leaves the entry and its timer in place
handleReceivedAckKeepsEntry(pend, tm, seqNum) ==
  IF seqNum \notin DOMAIN pend
  THEN AckResult(pend, tm, <<>>, Event("ack_unexpected", seqNum, 0))
  ELSE AckResult(pend, tm, <<>>,
                 Event("ack_received", seqNum, pend[seqNum].retries))

handleReceivedAck(pend, tm, seqNum) ==
  IF seqNum \notin DOMAIN pend
  THEN AckResult(pend, tm, <<>>, Event("ack_unexpected", seqNum, 0))
  ELSE AckResult([s \in DOMAIN pend \ {seqNum} |-> pend[s]],
                 clearTimeout(tm, pend[seqNum].timeout), <<>>,
                 Event("ack_received", seqNum, pend[seqNum].retries))

\* retransmitFrame: new timer, then the retransmit callback gets the frame
retransmitFrame(pend, tm, seqNum, ev) ==
  IF seqNum \notin DOMAIN pend
  THEN AckResult(pend, tm, <<>>, ev)
  ELSE LET t == setTimeout(clearTimeout(tm, pend[seqNum].timeout), seqNum)
       IN  AckResult([pend EXCEPT ![seqNum].timeout = t.handle], t.timers,
                     <<pend[seqNum].frame>>, ev)

handleReceivedNak(pend, tm, seqNum) ==
  IF seqNum \notin DOMAIN pend
  THEN AckResult(pend, tm, <<>>, Event("nak_unexpected", seqNum, 0))
  ELSE retransmitFrame(pend, tm, seqNum,
                       Event("nak_received", seqNum, pend[seqNum].retries))

\* handleAckTimeout, run by a timer that has just expired (tm no longer
\* holds its handle)
handleAckTimeout(pend, tm, seqNum) ==
  IF seqNum \notin DOMAIN pend
  THEN AckResult(pend, tm, <<>>, NoEvent)
  ELSE LET retries == pend[seqNum].retries + 1
           pend1 == [pend EXCEPT ![seqNum].retries = retries]
       IN  IF retries >= MAX_RETRIES
           THEN AckResult([s \in DOMAIN pend \ {seqNum} |-> pend[s]], tm,
                          <<>>, Event("frame_failed", seqNum, retries))
           ELSE retransmitFrame(pend1, tm, seqNum,
                                Event("ack_timeout", seqNum, retries))

clearPendingAcks(pend, tm) ==
  LET handles == {pend[s].timeout : s \in DOMAIN pend}
  IN  AckResult(EmptyMap, [h \in DOMAIN tm \ handles |-> tm[h]], <<>>,
                Event("acks_cleared", 0, 0))

\* ----------------------------------------------- CRC-16 and bit stuffing

FLAG == 126
ESC == 125
CRC_POLYNOMIAL == 4129

RECURSIVE BitXor(_, _)
\* a ^ b on non-negative integers
BitXor(a, b) ==
  IF a = 0 THEN b
  ELSE IF b = 0 THEN a
  ELSE (((a % 2) + (b % 2)) % 2) + 2 * BitXor(a \div 2, b \div 2)

RECURSIVE crcTableEntry(_, _)
\* the inner loop of generateCrcTable, j steps to go
crcTableEntry(crc, j) ==
  IF j = 0
  THEN crc % 65536
  ELSE crcTableEntry(IF (crc \div 32768) % 2 = 1
                     THEN BitXor(crc * 2, CRC_POLYNOMIAL)
                     ELSE crc * 2,
                     j - 1)

crcTable == [i \in 0..255 |-> crcTableEntry(i * 256, 8)]

RECURSIVE crcLoop(_, _)
\* the loop of CRC16.calculate over the bytes left
crcLoop(crc, data) ==
  IF data = <<>>
  THEN crc
  ELSE LET tableIndex == BitXor(crc \div 256, Head(data)) % 256
       IN  crcLoop(BitXor(crc * 256, crcTable[tableIndex]) % 65536,
                   Tail(data))

calculate(data) == BitXor(crcLoop(65535, data), 65535)

addCrc(data) ==
  LET crc == calculate(data)
  IN  data \o <<(crc \div 256) % 256, crc % 256>>

\* extractAndValidate for two bytes or more
extractAndValidate(dataWithCrc) ==
  LET dataLength == Len(dataWithCrc) - 2
      data == SubSeq(dataWithCrc, 1, dataLength)
      receivedCrc == dataWithCrc[dataLength + 1] * 256
                       + dataWithCrc[dataLength + 2]
  IN  [valid |-> calculate(data) = receivedCrc, data |-> data,
       crc |-> receivedCrc]

\* a stuffing that escapes FLAG and lets ESC through as it is
stuffByteFlagOnly(byte) ==
  IF byte = FLAG THEN <<ESC, 94>> ELSE <<byte>>

\* what the loop of bitStuff pushes for one byte
stuffByte(byte) ==
  IF byte = FLAG THEN <<ESC, 94>>
  ELSE IF byte = ESC THEN <<ESC, 93>>
  ELSE <<byte>>

RECURSIVE bitStuff(_)
bitStuff(data) ==
  IF data = <<>> THEN <<>>
  ELSE stuffByte(Head(data)) \o bitStuff(Tail(data))

RECURSIVE bitUnstuff(_)
bitUnstuff(stuffedData) ==
  IF stuffedData = <<>>
  THEN [success |-> TRUE, data |-> <<>>]
  ELSE IF Head(stuffedData) = ESC
  THEN IF Len(stuffedData) < 2
       THEN [success |-> FALSE, data |-> <<>>]
       ELSE IF stuffedData[2] \notin {94, 93}
       THEN [success |-> FALSE, data |-> <<>>]
       ELSE LET rest == bitUnstuff(SubSeq(stuffedData, 3, Len(stuffedData)))
                byte == IF stuffedData[2] = 94 THEN FLAG ELSE ESC
            IN  IF rest.success
                THEN [rest EXCEPT !.data = <<byte>> \o @]
                ELSE rest
  ELSE IF Head(stuffedData) = FLAG
  THEN [success |-> FALSE, data |-> <<>>]
  ELSE LET rest == bitUnstuff(Tail(stuffedData))
       IN  IF rest.success
           THEN [rest EXCEPT !.data = <<Head(stuffedData)>> \o @]
           ELSE rest

\* ------------------------------------------------------------ FrameBuilder

FrameTypeNames ==
  <<"DATA", "ACK", "NAK", "CONN", "CONN_ACK", "DISC", "DISC_ACK",
    "HEARTBEAT">>

\* the value of FrameType for a type name
FrameType(name) ==
  CHOOSE c \in 1..Len(FrameTypeNames) : FrameTypeNames[c] = name

\* a buildFrame that stuffs the fields and leaves the CRC bytes as they are
buildFrameRawCrc(type, seqNum, data) ==
  LET payload == <<type, seqNum % 16>> \o data
      payloadWithCrc == addCrc(payload)
  IN  <<FLAG>> \o bitStuff(payload)
        \o SubSeq(payloadWithCrc, Len(payload) + 1, Len(payload) + 2)
        \o <<FLAG>>

\* buildFrame for a valid type, a seq in 0..15 and at most MAX_DATA bytes
buildFrame(type, seqNum, data) ==
  <<FLAG>> \o bitStuff(addCrc(<<type, seqNum % 16>> \o data)) \o <<FLAG>>

ParseFailure(crcError) ==
  [success |-> FALSE, crcError |-> crcError, type |-> 0, seqNum |-> 0,
   data |-> <<>>]

\* a parseFrame that hands the fields on without validating the CRC
parseFrameSkipsCrc(rawFrame) ==
  IF Len(rawFrame) < 4 THEN ParseFailure(FALSE)
  ELSE IF rawFrame[1] # FLAG \/ rawFrame[Len(rawFrame)] # FLAG
  THEN ParseFailure(FALSE)
  ELSE LET unstuffResult == bitUnstuff(SubSeq(rawFrame, 2, Len(rawFrame) - 1))
           payload == unstuffResult.data
           validPayload == SubSeq(payload, 1, Len(payload) - 2)
       IN  IF ~unstuffResult.success THEN ParseFailure(FALSE)
           ELSE IF Len(payload) < 4 THEN ParseFailure(FALSE)
           ELSE IF validPayload[1] \notin 1..Len(FrameTypeNames)
           THEN ParseFailure(FALSE)
           ELSE [success |-> TRUE, crcError |-> FALSE,
                 type |-> validPayload[1],
                 seqNum |-> validPayload[2] % 16,
                 data |-> SubSeq(validPayload, 3, Len(validPayload))]

parseFrame(rawFrame) ==
  IF Len(rawFrame) < 4 THEN ParseFailure(FALSE)
  ELSE IF rawFrame[1] # FLAG \/ rawFrame[Len(rawFrame)] # FLAG
  THEN ParseFailure(FALSE)
  ELSE LET unstuffResult == bitUnstuff(SubSeq(rawFrame, 2, Len(rawFrame) - 1))
           payload == unstuffResult.data
           crcResult == extractAndValidate(payload)
           validPayload == crcResult.data
       IN  IF ~unstuffResult.success THEN ParseFailure(FALSE)
           ELSE IF Len(payload) < 4 THEN ParseFailure(FALSE)
           ELSE IF ~crcResult.valid THEN ParseFailure(TRUE)
           ELSE IF validPayload[1] \notin 1..Len(FrameTypeNames)
           THEN ParseFailure(FALSE)
           ELSE [success |-> TRUE, crcError |-> FALSE,
                 type |-> validPayload[1],
                 seqNum |-> validPayload[2] % 16,
                 data |-> SubSeq(validPayload, 3, Len(validPayload))]

\* -------------------------------------------------------- ConnectionManager

\* payload texts of the frames the connection manager builds
ConnectRequestText == -1
ConnectAckText == -2
DisconnectText == -3
DiscAckText == -4
HeartbeatText == -5

ConnFrame == [type |-> "CONN", seqNum |-> 0, data |-> ConnectRequestText]
ConnAckFrame == [type |-> "CONN_ACK", seqNum |-> 0, data |-> ConnectAckText]
DiscFrame == [type |-> "DISC", seqNum |-> 0, data |-> DisconnectText]
HeartbeatFrame == [type |-> "HEARTBEAT", seqNum |-> 0, data |-> HeartbeatText]

\* the event emitted by receiveFromPhysical
RxEvent(name, crcError) == [name |-> name, crcError |-> crcError]
NoRxEvent == RxEvent("none", FALSE)

\* a sequence without its entries equal to x
Without(seq, x) == SelectSeq(seq, LAMBDA y : y # x)

\* resolve or reject of a promise: only the first settlement counts
settle(results, id, outcome) ==
  IF results[id] = "pending"
  THEN [results EXCEPT ![id] = outcome]
  ELSE results

stopHeartbeat(C) == [C EXCEPT !.heartbeatTimer = FALSE]

startHeartbeat(C) ==
  [stopHeartbeat(C) EXCEPT !.heartbeatTimer = TRUE,
                           !.nextBeat = C.now + HEARTBEAT_INTERVAL,
                           !.lastHeartbeatReceived = C.now]

\* clearTimeouts, also the head of handleConnectionEstablished: the timer
\* whose handle the field holds is cancelled and the field is nulled
clearTimeouts(C) ==
  IF C.connectionTimeout # NoTimer
  THEN [C EXCEPT !.connTimers = Without(@, C.connectionTimeout),
                 !.connectionTimeout = NoTimer]
  ELSE C

\* resolveId: the attempt whose resolve was passed, 0 for none
handleConnectionEstablished(C, resolveId) ==
  LET C1 == startHeartbeat([clearTimeouts(C) EXCEPT !.state = "CONNECTED"])
  IN  IF resolveId # 0
      THEN [C1 EXCEPT !.connectResult = settle(@, resolveId, "resolved")]
      ELSE C1

\* ConnectionManager.handleDisconnection; every call emits 'disconnected'
handleDisconnection(C) ==
  [clearTimeouts(stopHeartbeat([C EXCEPT !.state = "DISCONNECTED"]))
     EXCEPT !.disconnectedEvents = @ + 1]

\* connect() in a state other than DISCONNECTED throws and changes nothing
connect(C) ==
  IF C.state # "DISCONNECTED"
  THEN C
  ELSE LET id == Len(C.connectResult) + 1
       IN  [C EXCEPT !.state = "CONNECTING",
                     !.out = Append(@, ConnFrame),
                     !.connectionTimeout = id,
                     !.connTimers = Append(@, id),
                     !.connAckListeners = Append(@, id),
                     !.rejectedListeners = Append(@, id),
                     !.connectResult = Append(@, "pending")]

\* the callback of the 10 s timer set by attempt id
connectionTimeoutFires(C, id) ==
  LET C1 == [C EXCEPT !.connTimers = Without(@, id)]
  IN  IF C1.state = "CONNECTING"
      THEN [C1 EXCEPT !.state = "DISCONNECTED",
                      !.connectResult = settle(@, id, "rejected")]
      ELSE C1

\* the conn_ack_received listener of attempt id
onConnAck(C, id) ==
  IF C.state = "CONNECTING"
  THEN handleConnectionEstablished(C, id)
  ELSE C

\* the connection_rejected listener of attempt id
onConnFailed(C, id) ==
  IF C.state = "CONNECTING"
  THEN [C EXCEPT !.state = "DISCONNECTED",
                 !.connectResult = settle(@, id, "rejected")]
  ELSE C

\* the disc_ack_received listener and the 5 s timer callback of disconnect
\* call id
onDisconnected(C, id) ==
  [handleDisconnection(C) EXCEPT
     !.disconnectResult = settle(@, id, "resolved")]

RECURSIVE emitConnAckReceived(_, _)
RECURSIVE emitConnectionRejected(_, _)
RECURSIVE emitDiscAckReceived(_, _)
\* emit to once-listeners: the listeners registered when the event is
\* emitted run in registration order (they have been removed by then)
emitConnAckReceived(C, listeners) ==
  IF listeners = <<>>
  THEN C
  ELSE emitConnAckReceived(onConnAck(C, Head(listeners)), Tail(listeners))

emitConnectionRejected(C, listeners) ==
  IF listeners = <<>>
  THEN C
  ELSE emitConnectionRejected(onConnFailed(C, Head(listeners)),
                              Tail(listeners))

emitDiscAckReceived(C, listeners) ==
  IF listeners = <<>>
  THEN C
  ELSE emitDiscAckReceived(onDisconnected(C, Head(listeners)),
                           Tail(listeners))

acceptConnection(C) ==
  IF C.state # "DISCONNECTED"
  THEN emitConnectionRejected([C EXCEPT !.rejectedListeners = <<>>],
                              C.rejectedListeners)
  ELSE handleConnectionEstablished(
         [C EXCEPT !.state = "CONNECTING",
                   !.out = Append(@, ConnAckFrame)], 0)

\* a disconnect that leaves the heartbeat interval running
disconnectKeepsHeartbeat(C) ==
  IF C.state # "CONNECTED"
  THEN C
  ELSE LET id == Len(C.disconnectResult) + 1
       IN  [C EXCEPT !.state = "DISCONNECTING",
                     !.out = Append(@, DiscFrame),
                     !.discTimers = Append(@, id),
                     !.discAckListeners = Append(@, id),
                     !.disconnectResult = Append(@, "pending")]

\* ConnectionManager.disconnect; outside CONNECTED it returns false
disconnect(C) ==
  IF C.state # "CONNECTED"
  THEN C
  ELSE LET id == Len(C.disconnectResult) + 1
       IN  [stopHeartbeat(C) EXCEPT !.state = "DISCONNECTING",
                                    !.out = Append(@, DiscFrame),
                                    !.discTimers = Append(@, id),
                                    !.discAckListeners = Append(@, id),
                                    !.disconnectResult = Append(@, "pending")]

discTimeoutFires(C, id) ==
  onDisconnected([C EXCEPT !.discTimers = Without(@, id)], id)

handleConnectionAck(C) ==
  emitConnAckReceived([C EXCEPT !.connAckListeners = <<>>],
                      C.connAckListeners)

\* the confirmation sent is built with createDataFrame
handleDisconnectionRequest(C) ==
  IF C.state = "CONNECTED"
  THEN [C EXCEPT !.out = Append(@, DataFrame(0, DiscAckText)),
                 !.dropTimers = @ + 1]
  ELSE C

\* the callback of a 100 ms timer set by handleDisconnectionRequest
dropTimeoutFires(C) ==
  handleDisconnection([C EXCEPT !.dropTimers = @ - 1])

handleDisconnectionAck(C) ==
  emitDiscAckReceived([C EXCEPT !.discAckListeners = <<>>],
                      C.discAckListeners)

handleHeartbeat(C) ==
  LET C1 == [C EXCEPT !.lastHeartbeatReceived = C.now]
  IN  IF C1.state = "CONNECTED"
      THEN [C1 EXCEPT !.out = Append(@, HeartbeatFrame)]
      ELSE C1

\* the callback of the heartbeat interval, run late ms after it is due
heartbeatTick(C, late) ==
  LET C1 == [C EXCEPT !.now = C.nextBeat + late,
                      !.nextBeat = C.nextBeat + late + HEARTBEAT_INTERVAL]
      C2 == [C1 EXCEPT !.out = Append(@, HeartbeatFrame)]
  IN  IF C1.state # "CONNECTED"
      THEN C1
      ELSE IF C2.lastHeartbeatReceived # NoTime
              /\ C2.now - C2.lastHeartbeatReceived > heartbeatTimeoutMs
      THEN handleDisconnection(C2)
      ELSE C2

\* ConnectionManager.processFrame: the frame types it handles
ConnFrameTypes == {"CONN", "CONN_ACK", "DISC", "DISC_ACK", "HEARTBEAT"}

processFrame(C, frame) ==
  CASE frame.type = "CONN" -> C
    [] frame.type = "CONN_ACK" -> handleConnectionAck(C)
    [] frame.type = "DISC" -> handleDisconnectionRequest(C)
    [] frame.type = "DISC_ACK" -> handleDisconnectionAck(C)
    [] frame.type = "HEARTBEAT" -> handleHeartbeat(C)
    [] OTHER -> C

\* -------------------------------------------------------------- initial state

Peers == {"A", "B"}

\* the fields of the coordinator, the window manager and the acknowledgment
\* manager after construction, with empty channels
\* no DATA frame handed to a receiver driven alone yet
NoRxData == [type |-> "none", seqNum |-> 0, data |-> NoData]

\* the frame builder not exercised
NoCodecIn == [type |-> 1, seqNum |-> 0, data |-> <<>>]
NoCodecOut ==
  [op |-> "none", bytes |-> <<>>, success |-> FALSE, type |-> 0,
   seqNum |-> 0, data |-> <<>>]
\* adjustWindowSize not called
NoAdjustIn == [rtt |-> 0, lossRate |-> 0]
NoCodec ==
  codecIn = NoCodecIn /\ codecOut = NoCodecOut /\ adjustIn = NoAdjustIn

InitLink ==
  /\ sendQueue = <<>>
  /\ isTransmitting = FALSE
  /\ inHand = NoData
  /\ completion = EmptyMap
  /\ accepted = 0
  /\ sendBase = 0
  /\ nextSeqNum = 0
  /\ windowSize = WINDOW_SIZE
  /\ pendingAcks = EmptyMap
  /\ timers = EmptyMap
  /\ expectedSeqNum = 0
  /\ receiveBuffer = [s \in SeqNums |-> NoData]
  /\ chanAB = <<>>
  /\ chanBA = <<>>
  /\ wmDelivered = <<>>
  /\ upcalls = <<>>
  /\ failedFrames = {}
  /\ txCount = [s \in SeqNums |-> 0]
  /\ nakSeen = {}
  /\ ackEvent = NoEvent
  /\ lastOp = "init"
  /\ timeoutsUsed = 0
  /\ lossUsed = 0
  /\ lost = <<>>
  /\ dupUsed = 0
  /\ discTimers = <<>>
  /\ discAckListeners = <<>>
  /\ disconnectResult = <<>>
  /\ dropTimers = 0
  /\ now = StartTime
  /\ disconnectedEvents = 0
  /\ lastTx = <<>>
  /\ rxEvent = NoRxEvent
  /\ rxCrc = "none"
  /\ rxData = NoRxData
  /\ sendErrors = 0
  /\ callsUsed = 0

\* both peers constructed and the handshake done: A's connect() resolved on
\* B's CONN_ACK (its connection_rejected listener is still registered and its
\* heartbeat interval runs), nothing sent yet
Init ==
  /\ InitLink
  /\ state = [p \in Peers |-> "CONNECTED"]
  /\ connectionTimeout = NoTimer
  /\ connTimers = <<>>
  /\ connAckListeners = <<>>
  /\ rejectedListeners = <<1>>
  /\ connectResult = <<"resolved">>
  /\ heartbeatTimer = TRUE
  /\ nextBeat = StartTime + HEARTBEAT_INTERVAL
  /\ lastHeartbeatReceived = StartTime
  /\ NoCodec

\* a peer right after construction
InitConn ==
  /\ InitLink
  /\ state = [p \in Peers |-> "DISCONNECTED"]
  /\ connectionTimeout = NoTimer
  /\ connTimers = <<>>
  /\ connAckListeners = <<>>
  /\ rejectedListeners = <<>>
  /\ connectResult = <<>>
  /\ heartbeatTimer = FALSE
  /\ nextBeat = NoTime
  /\ lastHeartbeatReceived = NoTime
  /\ NoCodec

\* ------------------------------------- the window manager's send side alone

WinGetNextSeqNum ==
  LET r == getNextSeqNum(sendBase, nextSeqNum, windowSize)
  IN  /\ nextSeqNum' = r.nextSeqNum
      /\ lastOp' = IF r.seqNum = -1 THEN "window_full" ELSE "frame_queued"
      /\ UNCHANGED <<connVars, queueVars, sendBase, windowSize, ackVars,
                     recvVars, chanVars, logVars, ackObsVars, ackEvent,
                     budgetVars>>

WinProcessAck ==
  \E ackSeqNum \in SeqNums :
    LET r == processAck(sendBase, windowSize, ackSeqNum)
    IN  /\ sendBase' = r.newBase
        /\ lastOp' = r.action
        /\ UNCHANGED <<connVars, queueVars, nextSeqNum, windowSize, ackVars,
                       recvVars, chanVars, logVars, ackObsVars, ackEvent,
                       budgetVars>>

NextWin == WinGetNextSeqNum \/ WinProcessAck

SpecWin == Init /\ [][NextWin]_vars

\* ------------------------------------------ the acknowledgment manager alone

AckSeqs == 0..MaxAckSeq

\* sendDataFrame's use of the manager: registerPendingAck, then the frame is
\* handed to the physical layer for the first time
AckRegister ==
  \E seqNum \in AckSeqs :
    LET r == registerPendingAck(pendingAcks, timers, seqNum,
                                DataFrame(seqNum, 1))
    IN  /\ pendingAcks' = r.pendingAcks
        /\ timers' = r.timers
        /\ txCount' = [txCount EXCEPT ![seqNum] = 1]
        /\ nakSeen' = nakSeen \ {seqNum}
        /\ ackEvent' = r.ev
        /\ lastOp' = IF seqNum \in DOMAIN pendingAcks
                     THEN "register_again" ELSE "register"
        /\ UNCHANGED <<connVars, queueVars, sendWinVars, windowSize,
                       recvVars, chanVars, logVars, budgetVars>>

AckRecvAck ==
  \E seqNum \in AckSeqs :
    LET r == handleReceivedAck(pendingAcks, timers, seqNum)
    IN  /\ pendingAcks' = r.pendingAcks
        /\ timers' = r.timers
        /\ txCount' = IF seqNum \in DOMAIN pendingAcks
                      THEN [txCount EXCEPT ![seqNum] = 0] ELSE txCount
        /\ nakSeen' = IF seqNum \in DOMAIN pendingAcks
                      THEN nakSeen \ {seqNum} ELSE nakSeen
        /\ ackEvent' = r.ev
        /\ lastOp' = "ack"
        /\ UNCHANGED <<connVars, queueVars, sendWinVars, windowSize,
                       recvVars, chanVars, logVars, budgetVars>>

AckRecvNak ==
  \E seqNum \in AckSeqs :
    LET r == handleReceivedNak(pendingAcks, timers, seqNum)
    IN  /\ txCount[seqNum] + Len(r.out) <= MaxTx
        /\ pendingAcks' = r.pendingAcks
        /\ timers' = r.timers
        /\ txCount' = [txCount EXCEPT ![seqNum] = @ + Len(r.out)]
        /\ nakSeen' = IF seqNum \in DOMAIN pendingAcks
                      THEN nakSeen \cup {seqNum} ELSE nakSeen
        /\ ackEvent' = r.ev
        /\ lastOp' = "nak"
        /\ UNCHANGED <<connVars, queueVars, sendWinVars, windowSize,
                       recvVars, chanVars, logVars, budgetVars>>

AckTimerFire ==
  \E handle \in DOMAIN timers :
    LET seqNum == timers[handle]
        r == handleAckTimeout(pendingAcks, clearTimeout(timers, handle),
                              seqNum)
    IN  /\ txCount[seqNum] + Len(r.out) <= MaxTx
        /\ pendingAcks' = r.pendingAcks
        /\ timers' = r.timers
        /\ txCount' = [txCount EXCEPT ![seqNum] = @ + Len(r.out)]
        /\ ackEvent' = r.ev
        /\ lastOp' = "timer"
        /\ UNCHANGED <<connVars, queueVars, sendWinVars, windowSize,
                       recvVars, chanVars, logVars, nakSeen, budgetVars>>

AckClear ==
  LET r == clearPendingAcks(pendingAcks, timers)
  IN  /\ pendingAcks' = r.pendingAcks
      /\ timers' = r.timers
      /\ txCount' = [s \in SeqNums |-> 0]
      /\ nakSeen' = {}
      /\ ackEvent' = r.ev
      /\ lastOp' = "clear"
      /\ UNCHANGED <<connVars, queueVars, sendWinVars, windowSize,
                     recvVars, chanVars, logVars, budgetVars>>

NextAck ==
  AckRegister \/ AckRecvAck \/ AckRecvNak \/ AckTimerFire \/ AckClear

SpecAck == Init /\ [][NextAck]_vars

\* ---------------------------------------------- WindowManager, receive side

RECURSIVE deliverLoop(_, _, _)
\* the while loop of deliverFramesInOrder
deliverLoop(expected, buf, delivered) ==
  IF buf[expected] = NoData
  THEN [expectedSeqNum |-> expected, receiveBuffer |-> buf,
        frames |-> delivered]
  ELSE deliverLoop(UtilsNextSeqNum(expected),
                   [buf EXCEPT ![expected] = NoData],
                   Append(delivered,
                          [seqNum |-> expected, data |-> buf[expected]]))

\* the payload of the frames_delivered event that deliverFramesInOrder emits
framesDeliveredEvent(frames, expected) ==
  [count |-> Len(frames),
   firstSeqNum |-> frames[1].seqNum,
   lastSeqNum |-> frames[Len(frames)].seqNum,
   newExpectedSeqNum |-> expected]

deliverFramesInOrder(expected, buf) ==
  LET w == deliverLoop(expected, buf, <<>>)
  IN  [action |-> "delivered", expectedSeqNum |-> w.expectedSeqNum,
       receiveBuffer |-> w.receiveBuffer, frames |-> w.frames,
       event |-> framesDeliveredEvent(w.frames, w.expectedSeqNum)]

NoFramesEvent == [count |-> 0]

\* a receiveFrame that keeps no frame arriving ahead of the expected one
receiveFrameDropsOutOfOrder(expected, buf, wsize, seqNum, data) ==
  LET diff == seqNumDiff(seqNum, expected)
      keep(action) == [action |-> action, expectedSeqNum |-> expected,
                       receiveBuffer |-> buf, frames |-> <<>>,
                       event |-> NoFramesEvent]
  IN  IF diff < 0 THEN keep("duplicate")
      ELSE IF diff >= wsize THEN keep("out_of_window")
      ELSE IF seqNum = expected
      THEN deliverFramesInOrder(expected, [buf EXCEPT ![seqNum] = data])
      ELSE keep("buffered")

receiveFrame(expected, buf, wsize, seqNum, data) ==
  LET diff == seqNumDiff(seqNum, expected)
      keep(action) == [action |-> action, expectedSeqNum |-> expected,
                       receiveBuffer |-> buf, frames |-> <<>>,
                       event |-> NoFramesEvent]
  IN  IF diff < 0 THEN keep("duplicate")
      ELSE IF diff >= wsize THEN keep("out_of_window")
      ELSE LET buf1 == [buf EXCEPT ![seqNum] = data]
           IN  IF seqNum = expected
               THEN deliverFramesInOrder(expected, buf1)
               ELSE [keep("buffered") EXCEPT !.receiveBuffer = buf1]

\* --------------------------------------------- DataLinkLayer, receive path

RECURSIVE dataReceivedEvents(_)
\* deliverToNetworkLayer for each frame of a list
dataReceivedEvents(frames) ==
  IF frames = <<>> THEN <<>>
  ELSE <<[data |-> Head(frames).data, seqNum |-> Head(frames).seqNum]>>
         \o dataReceivedEvents(Tail(frames))

\* the coordinator's frames_delivered listener: it iterates data.frames;
\* iterating a property the event does not carry throws a TypeError
onFramesDelivered(data) ==
  IF "frames" \in DOMAIN data
  THEN [threw |-> FALSE, upcalls |-> dataReceivedEvents(data.frames)]
  ELSE [threw |-> TRUE, upcalls |-> <<>>]

\* processDataFrame inside receiveFromPhysical's try/catch: the new receive
\* window, the upcalls made and the frames handed to the physical layer
processDataFrame(connected, expected, buf, wsize, frame) ==
  LET r == receiveFrame(expected, buf, wsize, frame.seqNum, frame.data)
      l == onFramesDelivered(r.event)
      res(out, ups, op) ==
        [expectedSeqNum |-> r.expectedSeqNum,
         receiveBuffer |-> r.receiveBuffer, frames |-> r.frames,
         upcalls |-> ups, out |-> out, op |-> op]
  IN  IF ~connected
      THEN [expectedSeqNum |-> expected, receiveBuffer |-> buf,
            frames |-> <<>>, upcalls |-> <<>>, out |-> <<>>,
            op |-> "ignored"]
      ELSE IF r.action = "delivered"
      THEN IF l.threw
           THEN res(<<>>, <<>>, "receive_error")
           ELSE res(<<AckFrame(r.frames[Len(r.frames)].seqNum)>>,
                    l.upcalls, "delivered")
      ELSE IF r.action = "duplicate"
      THEN res(<<AckFrame(frame.seqNum)>>, <<>>, "duplicate")
      ELSE res(<<>>, <<>>, r.action)

\* ------------------------------------------------ DataLinkLayer, send path

\* a frame_failed listener that rejects the send() of the failed payload
onFrameFailedRejects(compl, ev, data) ==
  IF ev.name = "frame_failed" /\ data \in DOMAIN compl
  THEN [compl EXCEPT ![data] = "rejected"]
  ELSE compl

\* the coordinator's frame_failed listener: it counts the error and emits
\* transmission_failed; the promise of the send() that carried the payload
\* is not touched
onFrameFailed(compl, ev, data) == compl

isConnected(p) == state[p] = "CONNECTED"

Sender(q, next, pend, tm, out, compl, hand, transmitting) ==
  [sendQueue |-> q, nextSeqNum |-> next, pendingAcks |-> pend,
   timers |-> tm, out |-> out, completion |-> compl, inHand |-> hand,
   isTransmitting |-> transmitting]

\* sendDataFrame for one payload: with window space the frame is registered
\* and transmitted; with a full window the payload stays in hand until
\* waitForWindowSpace finds space. A payload held by an earlier call that is
\* still waiting stays held.
\* a payload of MAX_DATA + 1 bytes
OversizeData == -7

\* data.length > FieldSize.MAX_DATA, the test of buildFrame: of the payloads
\* sent only OversizeData is that long
exceedsMaxData(data) == data = OversizeData

\* sendDataFrame: with the window full it waits; otherwise the seq is taken,
\* and createDataFrame throws for a payload above MAX_DATA before anything
\* is registered or sent
sendDataFrame(S, data) ==
  LET r == getNextSeqNum(sendBase, S.nextSeqNum, windowSize)
      frame == DataFrame(r.seqNum, data)
      reg == registerPendingAck(S.pendingAcks, S.timers, r.seqNum, frame)
  IN  IF r.seqNum = -1
      THEN [S EXCEPT !.inHand = data]
      ELSE IF exceedsMaxData(data)
      THEN [S EXCEPT !.nextSeqNum = r.nextSeqNum,
                     !.inHand = IF @ = data THEN NoData ELSE @]
      ELSE [S EXCEPT !.nextSeqNum = r.nextSeqNum,
                     !.pendingAcks = reg.pendingAcks,
                     !.timers = reg.timers,
                     !.out = Append(S.out, frame),
                     !.inHand = IF @ = data THEN NoData ELSE @]

\* a loop body that leaves the promise pending once the frame is sent
sendQueueItemStaysPending(S, data) == sendDataFrame(S, data)

\* the body of processSendQueue's loop for one item: await sendDataFrame,
\* then resolve the item's promise, or reject it if sendDataFrame threw
sendQueueItem(S, data) ==
  LET S1 == sendDataFrame(S, data)
  IN  IF S1.inHand = data
      THEN S1
      ELSE IF exceedsMaxData(data)
      THEN [S1 EXCEPT !.completion[data] = "rejected"]
      ELSE [S1 EXCEPT !.completion[data] = "resolved"]

RECURSIVE sendLoop(_)
\* the while loop of processSendQueue
sendLoop(S) ==
  IF Len(S.sendQueue) = 0 \/ ~isConnected("A")
  THEN [S EXCEPT !.isTransmitting = FALSE]
  ELSE LET S1 == sendQueueItem([S EXCEPT !.sendQueue = Tail(S.sendQueue)],
                               Head(S.sendQueue))
       IN  IF S1.inHand = Head(S.sendQueue) THEN S1 ELSE sendLoop(S1)

processSendQueue(S) ==
  IF S.isTransmitting \/ Len(S.sendQueue) = 0
  THEN S
  ELSE sendLoop([S EXCEPT !.isTransmitting = TRUE])

SenderNow ==
  Sender(sendQueue, nextSeqNum, pendingAcks, timers, <<>>, completion,
         inHand, isTransmitting)

\* the sender's fields after a step, its frames appended to the channel
SetSender(S) ==
  /\ Len(chanAB) + Len(S.out) <= MaxInFlight
  /\ sendQueue' = S.sendQueue
  /\ nextSeqNum' = S.nextSeqNum
  /\ pendingAcks' = S.pendingAcks
  /\ timers' = S.timers
  /\ completion' = S.completion
  /\ inHand' = S.inHand
  /\ isTransmitting' = S.isTransmitting
  /\ chanAB' = chanAB \o S.out

\* ------------------------------------------------- the two peers: actions

\* A's network layer calls sendToNetwork with the next payload
SendToNetwork(maxPayloads) ==
  /\ isConnected("A")
  /\ accepted < maxPayloads
  /\ Len(sendQueue) < MaxQueue
  /\ LET data == accepted + 1
         S == [SenderNow EXCEPT
                 !.sendQueue = Append(sendQueue, data),
                 !.completion = (data :> "pending") @@ completion]
     IN  /\ SetSender(IF isTransmitting THEN S ELSE processSendQueue(S))
         /\ accepted' = data
  /\ UNCHANGED <<connVars, sendBase, windowSize, recvVars, chanBA, logVars,
                 ackObsVars, ackEvent, budgetVars, lastOp>>

\* the 50 ms poll of waitForWindowSpace finds space: the payload in hand is
\* sent and processSendQueue goes on with the queue
PollWindow ==
  /\ inHand # NoData
  /\ canSend(sendBase, nextSeqNum, windowSize)
  /\ SetSender(sendLoop(sendQueueItem(SenderNow, inHand)))
  /\ UNCHANGED <<connVars, accepted, sendBase, windowSize, recvVars, chanBA,
                 logVars, ackObsVars, ackEvent, budgetVars, lastOp>>

RemoveAt(ch, i) == SubSeq(ch, 1, i - 1) \o SubSeq(ch, i + 1, Len(ch))

\* B.receiveFromPhysical with the i-th frame in flight from A
RecvAtB(i) ==
  /\ i \in 1..Len(chanAB)
  /\ chanAB[i].type = "DATA"
  /\ LET r == processDataFrame(isConnected("B"), expectedSeqNum,
                               receiveBuffer, windowSize, chanAB[i])
     IN  /\ Len(chanBA) + Len(r.out) <= MaxInFlight
         /\ expectedSeqNum' = r.expectedSeqNum
         /\ receiveBuffer' = r.receiveBuffer
         /\ wmDelivered' = wmDelivered \o r.frames
         /\ upcalls' = upcalls \o r.upcalls
         /\ chanBA' = chanBA \o r.out
  /\ chanAB' = RemoveAt(chanAB, i)
  /\ UNCHANGED <<connVars, queueVars, sendWinVars, windowSize, ackVars,
                 failedFrames, ackObsVars, ackEvent, budgetVars, lastOp>>

\* A.receiveFromPhysical with the i-th frame in flight from B:
\* processAckFrame or processNakFrame
RecvAtA(i) ==
  /\ i \in 1..Len(chanBA)
  /\ LET frame == chanBA[i]
         a == IF frame.type = "ACK"
              THEN handleReceivedAck(pendingAcks, timers, frame.seqNum)
              ELSE handleReceivedNak(pendingAcks, timers, frame.seqNum)
         w == IF frame.type = "ACK"
              THEN processAck(sendBase, windowSize, frame.seqNum)
              ELSE [windowSlid |-> FALSE, newBase |-> sendBase]
         S == [SenderNow EXCEPT !.pendingAcks = a.pendingAcks,
                                !.timers = a.timers, !.out = a.out]
     IN  /\ sendBase' = w.newBase
         /\ ackEvent' = a.ev
         /\ IF w.windowSlid /\ ~isTransmitting
            THEN SetSender(processSendQueue(S))
            ELSE SetSender(S)
  /\ chanBA' = RemoveAt(chanBA, i)
  /\ UNCHANGED <<connVars, accepted, windowSize, recvVars, logVars,
                 ackObsVars, budgetVars, lastOp>>

\* a retransmission timer of A expires: handleAckTimeout; the coordinator's
\* frame_failed listener only emits transmission_failed
TimerFire(maxTimeouts) ==
  /\ timeoutsUsed < maxTimeouts
  /\ \E handle \in DOMAIN timers :
       LET seqNum == timers[handle]
           a == handleAckTimeout(pendingAcks, clearTimeout(timers, handle),
                                 seqNum)
           data == IF seqNum \in DOMAIN pendingAcks
                   THEN pendingAcks[seqNum].frame.data ELSE NoData
       IN  /\ SetSender([SenderNow EXCEPT
                           !.pendingAcks = a.pendingAcks,
                           !.timers = a.timers, !.out = a.out,
                           !.completion = onFrameFailed(@, a.ev, data)])
           /\ ackEvent' = a.ev
           /\ failedFrames' =
                IF a.ev.name = "frame_failed"
                THEN failedFrames \cup {pendingAcks[seqNum].frame.data}
                ELSE failedFrames
  /\ timeoutsUsed' = timeoutsUsed + 1
  /\ UNCHANGED <<connVars, accepted, sendBase, windowSize, recvVars, chanBA,
                 wmDelivered, upcalls, ackObsVars, lossUsed, lost, dupUsed,
                 lastOp>>

\* a frame on its way to peer `to` that the channel lost
Lost(to, frame) == [to |-> to, frame |-> frame, timeouts |-> timeoutsUsed]

\* the channel loses a frame
Lose(maxFaults) ==
  /\ lossUsed + dupUsed < maxFaults
  /\ \/ \E i \in 1..Len(chanAB) :
          /\ chanAB' = RemoveAt(chanAB, i)
          /\ lost' = Append(lost, Lost("B", chanAB[i]))
          /\ UNCHANGED chanBA
     \/ \E i \in 1..Len(chanBA) :
          /\ chanBA' = RemoveAt(chanBA, i)
          /\ lost' = Append(lost, Lost("A", chanBA[i]))
          /\ UNCHANGED chanAB
  /\ lossUsed' = lossUsed + 1
  /\ UNCHANGED <<connVars, queueVars, sendWinVars, windowSize, ackVars,
                 recvVars, logVars, ackObsVars, ackEvent, timeoutsUsed,
                 dupUsed, lastOp>>

\* the channel duplicates a frame
Duplicate(maxFaults) ==
  /\ lossUsed + dupUsed < maxFaults
  /\ \/ \E i \in 1..Len(chanAB) :
          /\ Len(chanAB) < MaxInFlight
          /\ chanAB' = Append(chanAB, chanAB[i])
          /\ UNCHANGED chanBA
     \/ \E i \in 1..Len(chanBA) :
          /\ Len(chanBA) < MaxInFlight
          /\ chanBA' = Append(chanBA, chanBA[i])
          /\ UNCHANGED chanAB
  /\ dupUsed' = dupUsed + 1
  /\ UNCHANGED <<connVars, queueVars, sendWinVars, windowSize, ackVars,
                 recvVars, logVars, ackObsVars, ackEvent, timeoutsUsed,
                 lossUsed, lost, lastOp>>

\* lossy channel: frames may be lost, duplicated, delayed and reordered;
\* with MaxPayloads < WINDOW_SIZE the window never fills and sendDataFrame
\* never waits for window space
Next ==
  \/ SendToNetwork(MaxPayloads)
  \/ \E i \in 1..Len(chanAB) : RecvAtB(i)
  \/ \E i \in 1..Len(chanBA) : RecvAtA(i)
  \/ TimerFire(MaxTimeouts)
  \/ Lose(MaxFaults)
  \/ Duplicate(MaxFaults)

Spec == Init /\ [][Next]_vars

\* a channel that delays and reorders, with enough payloads for the sequence
\* numbers to wrap around
NextWrap ==
  \/ SendToNetwork(WrapPayloads)
  \/ PollWindow
  \/ \E i \in 1..Len(chanAB) : RecvAtB(i)
  \/ \E i \in 1..Len(chanBA) : RecvAtA(i)
  \/ TimerFire(WrapTimeouts)

SpecWrap == Init /\ [][NextWrap]_vars

\* lossless channel: every frame arrives once, in the order transmitted
NextLossless ==
  \/ SendToNetwork(WrapPayloads)
  \/ PollWindow
  \/ RecvAtB(1)
  \/ RecvAtA(1)
  \/ TimerFire(WrapTimeouts)

SpecLossless == Init /\ [][NextLossless]_vars

\* a channel that keeps the order and may lose frames, long enough for a
\* frame to be given up; every frame it does not lose it delivers, and the
\* application goes on sending; with FailPayloads < WINDOW_SIZE the window
\* never fills
NextFail ==
  \/ SendToNetwork(FailPayloads)
  \/ RecvAtB(1)
  \/ RecvAtA(1)
  \/ TimerFire(FailTimeouts)
  \/ Lose(FailFaults)

\* the step SendToNetwork, told by what it does to accepted
SendFires ==
  /\ isConnected("A")
  /\ accepted < FailPayloads
  /\ Len(sendQueue) < MaxQueue
  /\ accepted' = accepted + 1

\* the step RecvAtB(1), told by what it does to the channel: the oldest
\* frame leaves it and no loss is counted
DeliverAtB ==
  chanAB # <<>> /\ chanAB' = Tail(chanAB) /\ lossUsed' = lossUsed

\* the step RecvAtA(1), told in the same way
DeliverAtA ==
  chanBA # <<>> /\ chanBA' = Tail(chanBA) /\ lossUsed' = lossUsed

SpecFail ==
  /\ Init
  /\ [][NextFail]_vars
  /\ WF_accepted(SendFires)
  /\ WF_<<chanAB, lossUsed>>(DeliverAtB)
  /\ WF_<<chanBA, lossUsed>>(DeliverAtA)

\* ------------------------------------------------ one peer driven alone

\* a sendToNetwork that enqueues before it looks at the connection
sendToNetworkEnqueuesFirst(S, data) ==
  LET S1 == [S EXCEPT !.sendQueue = Append(@, data)]
  IN  IF ~isConnected("A")
      THEN S1
      ELSE LET S2 == [S1 EXCEPT !.completion = (data :> "pending") @@ @]
           IN  IF S2.isTransmitting THEN S2 ELSE processSendQueue(S2)

\* sendToNetwork: outside CONNECTED it throws NOT_CONNECTED before it
\* touches the queue
sendToNetwork(S, data) ==
  IF ~isConnected("A")
  THEN S
  ELSE LET S1 == [S EXCEPT !.sendQueue = Append(@, data),
                           !.completion = (data :> "pending") @@ @]
       IN  IF S1.isTransmitting THEN S1 ELSE processSendQueue(S1)

\* the sender's fields after a step of the peer driven alone
SetSenderAlone(S) ==
  /\ sendQueue' = S.sendQueue
  /\ nextSeqNum' = S.nextSeqNum
  /\ pendingAcks' = S.pendingAcks
  /\ timers' = S.timers
  /\ completion' = S.completion
  /\ inHand' = S.inHand
  /\ isTransmitting' = S.isTransmitting
  /\ lastTx' = S.out

ConnNow ==
  [state |-> state["A"], connectionTimeout |-> connectionTimeout,
   connTimers |-> connTimers, connAckListeners |-> connAckListeners,
   rejectedListeners |-> rejectedListeners, connectResult |-> connectResult,
   discTimers |-> discTimers, discAckListeners |-> discAckListeners,
   disconnectResult |-> disconnectResult, dropTimers |-> dropTimers,
   heartbeatTimer |-> heartbeatTimer, nextBeat |-> nextBeat,
   lastHeartbeatReceived |-> lastHeartbeatReceived, now |-> now,
   disconnectedEvents |-> disconnectedEvents, out |-> <<>>]

\* DataLinkLayer.handleDisconnection, the coordinator's 'disconnected'
\* listener: promises of queued items and a send waiting for window space
\* are left as they are
coordinatorHandleDisconnection ==
  /\ sendQueue' = <<>>
  /\ pendingAcks' = clearPendingAcks(pendingAcks, timers).pendingAcks
  /\ timers' = clearPendingAcks(pendingAcks, timers).timers
  /\ sendBase' = 0
  /\ nextSeqNum' = 0
  /\ windowSize' = WINDOW_SIZE
  /\ expectedSeqNum' = 0
  /\ receiveBuffer' = [s \in SeqNums |-> NoData]
  /\ isTransmitting' = FALSE

\* the connection manager's fields after a step, its frames handed to the
\* physical layer, and the coordinator's reaction to 'disconnected'
SetConn(C) ==
  /\ state' = [state EXCEPT !["A"] = C.state]
  /\ connectionTimeout' = C.connectionTimeout
  /\ connTimers' = C.connTimers
  /\ connAckListeners' = C.connAckListeners
  /\ rejectedListeners' = C.rejectedListeners
  /\ connectResult' = C.connectResult
  /\ discTimers' = C.discTimers
  /\ discAckListeners' = C.discAckListeners
  /\ disconnectResult' = C.disconnectResult
  /\ dropTimers' = C.dropTimers
  /\ heartbeatTimer' = C.heartbeatTimer
  /\ nextBeat' = C.nextBeat
  /\ lastHeartbeatReceived' = C.lastHeartbeatReceived
  /\ now' = C.now
  /\ disconnectedEvents' = C.disconnectedEvents
  /\ lastTx' = C.out
  /\ IF C.disconnectedEvents > disconnectedEvents
     THEN coordinatorHandleDisconnection
     ELSE UNCHANGED <<sendQueue, isTransmitting, sendWinVars, windowSize,
                      ackVars, recvVars>>

\* what no step of the connection manager touches
connFrame == <<codecVars, inHand, completion, accepted, chanVars, logVars,
               ackObsVars,
               ackEvent, budgetVars, sendErrors>>

\* the application calls connect()
ApiConnect(maxCalls) ==
  /\ callsUsed < maxCalls
  /\ SetConn(connect(ConnNow))
  /\ lastOp' = "connect"
  /\ callsUsed' = callsUsed + 1
  /\ UNCHANGED <<connFrame, rxVars>>

\* the application calls acceptConnection()
ApiAcceptConnection(maxCalls) ==
  /\ callsUsed < maxCalls
  /\ SetConn(acceptConnection(ConnNow))
  /\ lastOp' = "accept"
  /\ callsUsed' = callsUsed + 1
  /\ UNCHANGED <<connFrame, rxVars>>

\* the application calls disconnect(); DataLinkLayer.disconnect returns
\* at once when the peer is not connected
ApiDisconnect(maxCalls) ==
  /\ callsUsed < maxCalls
  /\ SetConn(disconnect(ConnNow))
  /\ lastOp' = "disconnect"
  /\ callsUsed' = callsUsed + 1
  /\ UNCHANGED <<connFrame, rxVars>>

\* the application calls sendToNetwork with the next payload
ApiSend(maxCalls, maxPayloads) ==
  /\ callsUsed < maxCalls
  /\ accepted < maxPayloads
  /\ LET data == accepted + 1
     IN  /\ SetSenderAlone(sendToNetwork(SenderNow, data))
         /\ accepted' = IF isConnected("A") THEN data ELSE accepted
         /\ sendErrors' = IF isConnected("A") THEN sendErrors
                          ELSE sendErrors + 1
  /\ lastOp' = "send"
  /\ callsUsed' = callsUsed + 1
  /\ UNCHANGED <<state, cmVars, codecVars,
                 sendBase, windowSize, recvVars, chanVars,
                 logVars, ackObsVars, ackEvent, budgetVars, rxVars>>

\* the 10 s timer of a connect() expires; timers of equal delay expire in
\* the order they were set
ConnectionTimeout ==
  /\ connTimers # <<>>
  /\ SetConn(connectionTimeoutFires(ConnNow, Head(connTimers)))
  /\ lastOp' = "connection_timeout"
  /\ UNCHANGED <<connFrame, rxVars, callsUsed>>

\* the 5 s timer of a disconnect() expires
DisconnectTimeout ==
  /\ discTimers # <<>>
  /\ SetConn(discTimeoutFires(ConnNow, Head(discTimers)))
  /\ lastOp' = "disconnect_timeout"
  /\ UNCHANGED <<connFrame, rxVars, callsUsed>>

\* a 100 ms timer of handleDisconnectionRequest expires
DropTimeout ==
  /\ dropTimers > 0
  /\ SetConn(dropTimeoutFires(ConnNow))
  /\ lastOp' = "drop_timeout"
  /\ UNCHANGED <<connFrame, rxVars, callsUsed>>

\* the heartbeat interval fires, on time or a millisecond late
HeartbeatTick(maxTime) ==
  /\ heartbeatTimer
  /\ \E late \in 0..1 :
       /\ nextBeat + late <= maxTime
       /\ SetConn(heartbeatTick(ConnNow, late))
  /\ lastOp' = "heartbeat_tick"
  /\ UNCHANGED <<connFrame, rxVars, callsUsed>>

\* a retransmission timer expires
AckTimeout(maxTimeouts) ==
  /\ timeoutsUsed < maxTimeouts
  /\ \E handle \in DOMAIN timers :
       LET seqNum == timers[handle]
           a == handleAckTimeout(pendingAcks, clearTimeout(timers, handle),
                                 seqNum)
           data == IF seqNum \in DOMAIN pendingAcks
                   THEN pendingAcks[seqNum].frame.data ELSE NoData
       IN  /\ SetSenderAlone([SenderNow EXCEPT
                                !.pendingAcks = a.pendingAcks,
                                !.timers = a.timers, !.out = a.out,
                                !.completion = onFrameFailed(@, a.ev, data)])
           /\ ackEvent' = a.ev
           /\ failedFrames' =
                IF a.ev.name = "frame_failed"
                THEN failedFrames \cup {pendingAcks[seqNum].frame.data}
                ELSE failedFrames
  /\ timeoutsUsed' = timeoutsUsed + 1
  /\ lastOp' = "ack_timeout"
  /\ UNCHANGED <<state, cmVars, codecVars,
                 accepted, sendBase, windowSize, recvVars,
                 chanVars, wmDelivered, upcalls, ackObsVars, lossUsed, lost,
                 dupUsed, rxVars, sendErrors, callsUsed>>

\* processReceivedFrame for a frame the connection manager handles
RxConnFrame(frame) ==
  /\ SetConn(processFrame(ConnNow, frame))
  /\ UNCHANGED connFrame

\* processReceivedFrame for a DATA frame
RxDataFrame(frame) ==
  LET r == processDataFrame(isConnected("A"), expectedSeqNum, receiveBuffer,
                            windowSize, frame)
  IN  /\ expectedSeqNum' = r.expectedSeqNum
      /\ receiveBuffer' = r.receiveBuffer
      /\ wmDelivered' = wmDelivered \o r.frames
      /\ upcalls' = upcalls \o r.upcalls
      /\ lastTx' = r.out
      /\ UNCHANGED <<state, cmVars, codecVars,
                     queueVars, sendWinVars, windowSize,
                     ackVars, chanVars, failedFrames, ackObsVars, ackEvent,
                     budgetVars, sendErrors>>

\* processReceivedFrame for an ACK or a NAK frame
RxAckFrame(frame) ==
  LET a == IF frame.type = "ACK"
           THEN handleReceivedAck(pendingAcks, timers, frame.seqNum)
           ELSE handleReceivedNak(pendingAcks, timers, frame.seqNum)
      w == IF frame.type = "ACK"
           THEN processAck(sendBase, windowSize, frame.seqNum)
           ELSE [windowSlid |-> FALSE, newBase |-> sendBase]
      S == [SenderNow EXCEPT !.pendingAcks = a.pendingAcks,
                             !.timers = a.timers, !.out = a.out]
  IN  /\ sendBase' = w.newBase
      /\ ackEvent' = a.ev
      /\ IF w.windowSlid /\ ~isTransmitting
         THEN SetSenderAlone(processSendQueue(S))
         ELSE SetSenderAlone(S)
      /\ UNCHANGED <<state, cmVars, codecVars,
                     accepted, windowSize, recvVars, chanVars,
                     logVars, ackObsVars, budgetVars, sendErrors>>

\* processReceivedFrame
processReceivedFrame(frame) ==
  IF frame.type \in ConnFrameTypes
  THEN RxConnFrame(frame)
  ELSE IF frame.type = "DATA"
  THEN RxDataFrame(frame)
  ELSE RxAckFrame(frame)

\* --------------------------------------- frames as bytes on the physical layer

NakFrame(seqNum) == [type |-> "NAK", seqNum |-> seqNum, data |-> NoData]
DiscAckFrame == [type |-> "DISC_ACK", seqNum |-> 0, data |-> NoData]

\* a payload the model has no name for
UnknownPayload == -6

\* the bytes of the payloads: the first two payloads of the network layer
\* hold the bytes that need stuffing, the texts are the connection manager's
PayloadBytes(data) ==
  CASE data = NoData -> <<>>
    [] data = 1 -> <<FLAG, 129>>
    [] data = 2 -> <<ESC, 130>>
    [] data = ConnectRequestText ->
         <<67, 79, 78, 78, 69, 67, 84, 95, 82, 69, 81, 85, 69, 83, 84>>
    [] data = ConnectAckText -> <<67, 79, 78, 78, 69, 67, 84, 95, 65, 67, 75>>
    [] data = DisconnectText -> <<68, 73, 83, 67, 79, 78, 78, 69, 67, 84>>
    [] data = DiscAckText -> <<68, 73, 83, 67, 95, 65, 67, 75>>
    [] data = HeartbeatText -> <<49, 48, 48, 48>>
    [] OTHER -> <<data % 256>>

NamedPayloads == HeartbeatText..MaxPayloads

PayloadId(bytes) ==
  IF \E data \in NamedPayloads : PayloadBytes(data) = bytes
  THEN CHOOSE data \in NamedPayloads : PayloadBytes(data) = bytes
  ELSE UnknownPayload

\* the frame a build call hands to the physical layer
Raw(frame) ==
  buildFrame(FrameType(frame.type), frame.seqNum, PayloadBytes(frame.data))

\* the parsed frame as the components see it
ToFrame(parsed) ==
  [type |-> FrameTypeNames[parsed.type], seqNum |-> parsed.seqNum,
   data |-> PayloadId(parsed.data)]

\* the frames a remote peer may send
RxFrames ==
  {DataFrame(0, 1), DataFrame(1, 2), DataFrame(0, DiscAckText), AckFrame(0),
   AckFrame(1), NakFrame(0), ConnFrame, ConnAckFrame, DiscFrame,
   DiscAckFrame, HeartbeatFrame}

Min(a, b) == IF a < b THEN a ELSE b

\* the channel corrupts one byte of a frame
Corrupt(rawFrame, pos) == [rawFrame EXCEPT ![pos] = 255 - @]

CorruptFrames ==
  LET damaged == {Raw(DataFrame(0, 1)), Raw(DataFrame(1, 2)), Raw(DiscFrame)}
  IN  UNION {{Corrupt(raw, pos) : pos \in 1..Min(MaxCorruptPos, Len(raw))} :
               raw \in damaged}
        \cup {<<FLAG, FLAG>>, buildFrame(9, 0, <<>>)}

RawInputs == {Raw(frame) : frame \in RxFrames} \cup CorruptFrames

ParseTable == [rawFrame \in RawInputs |-> parseFrame(rawFrame)]

\* the content between the flags, unstuffed: "match" when its last two bytes
\* are the CRC of the bytes before them, "mismatch" when they are not, "none"
\* when there is no such content
CrcOf(rawFrame) ==
  IF Len(rawFrame) < 4 \/ rawFrame[1] # FLAG \/ rawFrame[Len(rawFrame)] # FLAG
  THEN "none"
  ELSE LET content == bitUnstuff(SubSeq(rawFrame, 2, Len(rawFrame) - 1))
           n == Len(content.data)
       IN  IF ~content.success \/ n < 4 THEN "none"
           ELSE IF calculate(SubSeq(content.data, 1, n - 2))
                     = content.data[n - 1] * 256 + content.data[n]
           THEN "match"
           ELSE "mismatch"

CrcTable == [rawFrame \in RawInputs |-> CrcOf(rawFrame)]

\* a receiveFromPhysical that answers a CRC error with a NAK
onParseFailureSendsNak(parseResult) ==
  IF parseResult.crcError THEN <<NakFrame(0)>> ELSE <<>>

\* what receiveFromPhysical hands to the physical layer for a frame that
\* does not parse: nothing
onParseFailure(parseResult) == <<>>

\* receiveFromPhysical: a frame that does not parse is counted and reported
\* by frame_error; an exception of the processing is caught and reported by
\* receive_error
ReceiveFromPhysical(maxCalls) ==
  /\ callsUsed < maxCalls
  /\ \E rawFrame \in RawInputs :
       LET parseResult == ParseTable[rawFrame]
           frame == ToFrame(parseResult)
           threw == /\ frame.type = "DATA"
                    /\ processDataFrame(isConnected("A"), expectedSeqNum,
                                        receiveBuffer, windowSize,
                                        frame).op = "receive_error"
       IN  /\ rxCrc' = CrcTable[rawFrame]
           /\ IF ~parseResult.success
              THEN /\ rxEvent' = RxEvent("frame_error", parseResult.crcError)
                   /\ lastOp' = "frame_error"
                   /\ lastTx' = onParseFailure(parseResult)
                   /\ UNCHANGED <<state, cmVars, codecVars,
                                  queueVars, sendWinVars,
                                  windowSize, ackVars, recvVars, chanVars,
                                  logVars, ackObsVars, ackEvent, budgetVars,
                                  sendErrors>>
              ELSE /\ processReceivedFrame(frame)
                   /\ rxEvent' = RxEvent(IF threw THEN "receive_error"
                                         ELSE "frame_received", FALSE)
                   /\ lastOp' = frame.type
  /\ callsUsed' = callsUsed + 1
  /\ UNCHANGED rxData

\* one peer driven by its application, its physical layer and its timers
NextPeer ==
  \/ ApiConnect(MaxCalls)
  \/ ApiAcceptConnection(MaxCalls)
  \/ ApiDisconnect(MaxCalls)
  \/ ApiSend(MaxCalls, MaxPayloads)
  \/ ReceiveFromPhysical(MaxCalls)
  \/ ConnectionTimeout
  \/ DisconnectTimeout
  \/ DropTimeout
  \/ HeartbeatTick(MaxTime)
  \/ AckTimeout(MaxTimeouts)

SpecPeer == InitConn /\ [][NextPeer]_vars

\* a peer with a full window: its application has called sendToNetwork
\* WINDOW_SIZE times since the handshake and no ACK has come back yet
RECURSIVE sendAll(_, _, _)
sendAll(S, first, last) ==
  IF first > last
  THEN S
  ELSE sendAll(sendToNetwork(S, first), first + 1, last)

InitFull ==
  /\ state = [p \in Peers |-> "CONNECTED"]
  /\ sendBase = 0
  /\ windowSize = WINDOW_SIZE
  /\ LET S == sendAll(Sender(<<>>, 0, EmptyMap, EmptyMap, <<>>, EmptyMap,
                             NoData, FALSE), 1, WINDOW_SIZE)
     IN  /\ sendQueue = S.sendQueue
         /\ isTransmitting = S.isTransmitting
         /\ inHand = S.inHand
         /\ completion = S.completion
         /\ nextSeqNum = S.nextSeqNum
         /\ pendingAcks = S.pendingAcks
         /\ timers = S.timers
  /\ accepted = WINDOW_SIZE
  /\ expectedSeqNum = 0
  /\ receiveBuffer = [s \in SeqNums |-> NoData]
  /\ chanAB = <<>>
  /\ chanBA = <<>>
  /\ wmDelivered = <<>>
  /\ upcalls = <<>>
  /\ failedFrames = {}
  /\ txCount = [s \in SeqNums |-> 0]
  /\ nakSeen = {}
  /\ ackEvent = NoEvent
  /\ lastOp = "init"
  /\ timeoutsUsed = 0
  /\ lossUsed = 0
  /\ lost = <<>>
  /\ dupUsed = 0
  /\ connectionTimeout = NoTimer
  /\ connTimers = <<>>
  /\ connAckListeners = <<>>
  /\ rejectedListeners = <<1>>
  /\ connectResult = <<"resolved">>
  /\ discTimers = <<>>
  /\ discAckListeners = <<>>
  /\ disconnectResult = <<>>
  /\ dropTimers = 0
  /\ heartbeatTimer = TRUE
  /\ nextBeat = StartTime + HEARTBEAT_INTERVAL
  /\ lastHeartbeatReceived = StartTime
  /\ now = StartTime
  /\ disconnectedEvents = 0
  /\ lastTx = <<>>
  /\ rxEvent = NoRxEvent
  /\ rxCrc = "none"
  /\ rxData = NoRxData
  /\ sendErrors = 0
  /\ callsUsed = 0
  /\ NoCodec

\* the 50 ms poll of waitForWindowSpace finds space: the payload in hand is
\* sent, its promise resolves and processSendQueue goes on with the queue
PollWindowAlone ==
  /\ inHand # NoData
  /\ canSend(sendBase, nextSeqNum, windowSize)
  /\ SetSenderAlone(sendLoop(sendQueueItem(SenderNow, inHand)))
  /\ lastOp' = "poll"
  /\ UNCHANGED <<state, cmVars, codecVars,
                 accepted, sendBase, windowSize, recvVars,
                 chanVars, logVars, ackObsVars, ackEvent, budgetVars, rxVars,
                 sendErrors, callsUsed>>

NextFull ==
  \/ ApiSend(FullCalls, FullPayloads)
  \/ ApiAcceptConnection(FullCalls)
  \/ ApiDisconnect(FullCalls)
  \/ ReceiveFromPhysical(FullCalls)
  \/ DisconnectTimeout
  \/ DropTimeout
  \/ PollWindowAlone

SpecFull == InitFull /\ [][NextFull]_vars

\* waitForWindowSpace has its 50 ms timer armed and the window has space
PollArmed == inHand # NoData /\ canSend(sendBase, nextSeqNum, windowSize)

\* the step PollWindowAlone, told by what it leaves in lastOp
PollFires == PollArmed /\ lastOp' = "poll"

\* the 50 ms timer of waitForWindowSpace fires for as long as it is armed
SpecFullLive == SpecFull /\ WF_lastOp(PollFires)

\* a connected peer left to its heartbeat interval and to what it receives
NextBeat ==
  \/ HeartbeatTick(BeatMaxTime)
  \/ ReceiveFromPhysical(BeatCalls)
  \/ DropTimeout

SpecBeat == Init /\ [][NextBeat]_vars

\* ----------------------------------------- the frame builder on its own

\* everything but the frame builder's input and output
linkVars == <<state, cmVars, ioVars, queueVars, sendWinVars, windowSize,
              ackVars, recvVars, chanVars, logVars, ackObsVars, ackEvent,
              lastOp, budgetVars>>

\* bytes that matter to the stuffing (FLAG, ESC, the two escape codes) and
\* two that do not
CodecBytes == {0, 93, 94, ESC, FLAG, 255}

ByteSeqs(maxLen) == UNION {[1..n -> CodecBytes] : n \in 0..maxLen}

\* a peer right after construction and any valid input of buildFrame
InitCodec ==
  /\ InitLink
  /\ state = [p \in Peers |-> "DISCONNECTED"]
  /\ connectionTimeout = NoTimer
  /\ connTimers = <<>>
  /\ connAckListeners = <<>>
  /\ rejectedListeners = <<>>
  /\ connectResult = <<>>
  /\ heartbeatTimer = FALSE
  /\ nextBeat = NoTime
  /\ lastHeartbeatReceived = NoTime
  /\ codecIn \in [type : 1..Len(FrameTypeNames), seqNum : SeqNums,
                  data : ByteSeqs(MaxDataLen)]
  /\ codecOut = NoCodecOut
  /\ adjustIn = NoAdjustIn

\* buildFrame, and parseFrame on the frame it returned
CodecBuildParse ==
  /\ codecOut.op = "none"
  /\ LET frame == buildFrame(codecIn.type, codecIn.seqNum, codecIn.data)
         r == parseFrame(frame)
     IN  codecOut' = [op |-> "parseFrame", bytes |-> frame,
                      success |-> r.success, type |-> r.type,
                      seqNum |-> r.seqNum, data |-> r.data]
  /\ UNCHANGED <<codecIn, adjustIn, linkVars>>

\* bitStuff, and bitUnstuff on the bytes it returned
CodecStuffUnstuff ==
  /\ codecOut.op = "none"
  /\ LET stuffed == bitStuff(codecIn.data)
         r == bitUnstuff(stuffed)
     IN  codecOut' = [op |-> "bitUnstuff", bytes |-> stuffed,
                      success |-> r.success, type |-> 0, seqNum |-> 0,
                      data |-> r.data]
  /\ UNCHANGED <<codecIn, adjustIn, linkVars>>

NextCodec == CodecBuildParse \/ CodecStuffUnstuff

SpecCodec == InitCodec /\ [][NextCodec]_vars

\* ------------------------------------------------ a receiver driven alone

\* a connected peer that has received its first frames in order: the window
\* manager returned each of them and expects the next, its buffer is empty
InitRecv ==
  /\ state = [p \in Peers |-> "CONNECTED"]
  /\ sendQueue = <<>>
  /\ isTransmitting = FALSE
  /\ inHand = NoData
  /\ completion = EmptyMap
  /\ accepted = 0
  /\ sendBase = 0
  /\ nextSeqNum = 0
  /\ windowSize = WINDOW_SIZE
  /\ pendingAcks = EmptyMap
  /\ timers = EmptyMap
  /\ expectedSeqNum \in SeqNums
  /\ receiveBuffer = [s \in SeqNums |-> NoData]
  /\ chanAB = <<>>
  /\ chanBA = <<>>
  /\ wmDelivered = [i \in 1..expectedSeqNum |-> [seqNum |-> i - 1, data |-> 1]]
  /\ upcalls = <<>>
  /\ failedFrames = {}
  /\ txCount = [s \in SeqNums |-> 0]
  /\ nakSeen = {}
  /\ ackEvent = NoEvent
  /\ lastOp = "init"
  /\ timeoutsUsed = 0
  /\ lossUsed = 0
  /\ lost = <<>>
  /\ dupUsed = 0
  /\ connectionTimeout = NoTimer
  /\ connTimers = <<>>
  /\ connAckListeners = <<>>
  /\ rejectedListeners = <<1>>
  /\ connectResult = <<"resolved">>
  /\ discTimers = <<>>
  /\ discAckListeners = <<>>
  /\ disconnectResult = <<>>
  /\ dropTimers = 0
  /\ heartbeatTimer = TRUE
  /\ nextBeat = StartTime + HEARTBEAT_INTERVAL
  /\ lastHeartbeatReceived = StartTime
  /\ now = StartTime
  /\ disconnectedEvents = 0
  /\ lastTx = <<>>
  /\ rxEvent = NoRxEvent
  /\ rxCrc = "none"
  /\ rxData = NoRxData
  /\ sendErrors = 0
  /\ callsUsed = 0
  /\ NoCodec

\* receiveFromPhysical with a well-formed DATA frame of any sequence number;
\* lastOp is the action receiveFrame of the window manager returned
ReceiveData(maxCalls) ==
  /\ callsUsed < maxCalls
  /\ \E seqNum \in SeqNums :
       LET frame == DataFrame(seqNum, callsUsed + 1)
           threw == processDataFrame(isConnected("A"), expectedSeqNum,
                                     receiveBuffer, windowSize,
                                     frame).op = "receive_error"
       IN  /\ processReceivedFrame(frame)
           /\ rxData' = frame
           /\ rxCrc' = "match"
           /\ rxEvent' = RxEvent(IF threw THEN "receive_error"
                                 ELSE "frame_received", FALSE)
           /\ lastOp' = receiveFrame(expectedSeqNum, receiveBuffer,
                                     windowSize, seqNum, frame.data).action
  /\ callsUsed' = callsUsed + 1

NextRecv == ReceiveData(MaxRecvCalls)

SpecRecv == InitRecv /\ [][NextRecv]_vars

\* ------------------------------------- the window adjustment on its own

\* round trip times (ms) on both sides of 100
RttValues == {50, 99, 100, 150}
\* loss rates (1/10000) on both sides of 0.1 %, 1 % and 5 %
LossRates == {0, 9, 10, 11, 100, 101, 300, 500, 501, 1000}

AdjustWindowSize ==
  \E rtt \in RttValues, lossRate \in LossRates :
    /\ windowSize' = adjustWindowSize(windowSize, rtt, lossRate)
    /\ adjustIn' = [rtt |-> rtt, lossRate |-> lossRate]
    /\ lastOp' = "adjust"
    /\ UNCHANGED <<state, cmVars, ioVars, codecIn, codecOut, queueVars,
                   sendWinVars, ackVars, recvVars, chanVars, logVars,
                   ackObsVars, ackEvent, budgetVars>>

NextAdjust == AdjustWindowSize

SpecAdjust == Init /\ [][NextAdjust]_vars

\* --------------------------------------- payloads above MAX_DATA among others

\* the application calls sendToNetwork with a payload of MAX_DATA + 1 bytes;
\* accepted goes on counting the payloads that fit
ApiSendOversize(maxCalls) ==
  /\ callsUsed < maxCalls
  /\ SetSenderAlone(sendToNetwork(SenderNow, OversizeData))
  /\ sendErrors' = IF isConnected("A") THEN sendErrors ELSE sendErrors + 1
  /\ lastOp' = "send_oversize"
  /\ callsUsed' = callsUsed + 1
  /\ UNCHANGED <<state, cmVars, codecVars, accepted, sendBase, windowSize,
                 recvVars, chanVars, logVars, ackObsVars, ackEvent,
                 budgetVars, rxVars>>

NextLarge ==
  \/ ApiSend(LargeCalls, MaxPayloads)
  \/ ApiSendOversize(LargeCalls)
  \/ ReceiveFromPhysical(LargeCalls)

SpecLarge == Init /\ [][NextLarge]_vars

\* ------------------------------ heartbeats between two peers, nothing lost

\* B's connection manager: of its fields only the state is followed, the
\* one handleHeartbeat reads before it replies
ConnNowB == [ConnNow EXCEPT !.state = state["B"]]

\* A's heartbeat interval fires; B's is not due in the time considered
EchoTick(maxTime) ==
  /\ heartbeatTimer
  /\ \E late \in 0..1 :
       /\ nextBeat + late <= maxTime
       /\ SetConn(heartbeatTick(ConnNow, late))
       /\ chanAB' = chanAB \o heartbeatTick(ConnNow, late).out
  /\ lastOp' = "heartbeat_tick"
  /\ UNCHANGED <<codecVars, inHand, completion, accepted, chanBA, logVars,
                 ackObsVars, ackEvent, budgetVars, sendErrors, rxVars,
                 callsUsed>>

\* the oldest frame on its way to B arrives
EchoAtB(maxCalls) ==
  /\ callsUsed < maxCalls
  /\ chanAB # <<>>
  /\ LET C == processFrame(ConnNowB, Head(chanAB))
     IN  /\ state' = [state EXCEPT !["B"] = C.state]
         /\ chanBA' = chanBA \o C.out
  /\ chanAB' = Tail(chanAB)
  /\ lastOp' = "heartbeat_at_B"
  /\ callsUsed' = callsUsed + 1
  /\ UNCHANGED <<cmVars, codecVars, lastTx, rxVars, sendErrors, queueVars,
                 sendWinVars, windowSize, ackVars, recvVars, logVars,
                 ackObsVars, ackEvent, budgetVars>>

\* the oldest frame on its way to A arrives
EchoAtA(maxCalls) ==
  /\ callsUsed < maxCalls
  /\ chanBA # <<>>
  /\ SetConn(processFrame(ConnNow, Head(chanBA)))
  /\ chanAB' = chanAB \o processFrame(ConnNow, Head(chanBA)).out
  /\ chanBA' = Tail(chanBA)
  /\ lastOp' = "heartbeat_at_A"
  /\ callsUsed' = callsUsed + 1
  /\ UNCHANGED <<codecVars, inHand, completion, accepted, logVars,
                 ackObsVars, ackEvent, budgetVars, sendErrors, rxVars>>

NextEcho ==
  \/ EchoTick(EchoMaxTime)
  \/ EchoAtB(EchoCalls)
  \/ EchoAtA(EchoCalls)

SpecEcho == Init /\ [][NextEcho]_vars

\* ------------------------------------------------------------------- claims

\* nothing in flight, nothing queued and nothing awaiting an ACK
Quiescent ==
  /\ chanAB = <<>>
  /\ chanBA = <<>>
  /\ sendQueue = <<>>
  /\ inHand = NoData
  /\ DOMAIN pendingAcks = {}

\* C1: over a lossless channel every accepted payload reaches the receiver's
\* network layer exactly once and in the order sent, with seqs 0..15, 0, ...;
\* stated for the states in which nothing more can arrive
C1_AllDeliveredOnceInOrder ==
  Quiescent =>
    /\ Len(upcalls) = accepted
    /\ \A i \in 1..Len(upcalls) :
         /\ upcalls[i].data = i
         /\ upcalls[i].seqNum = (i - 1) % (MAX_SEQ_NUM + 1)

\* C2: expected_seq advances past a sequence number only in a step that hands
\* the payload stored for it to the network layer, with that seq
C2_AdvanceOnlyWithUpcall ==
  [][expectedSeqNum' # expectedSeqNum =>
       upcalls' = upcalls \o
         dataReceivedEvents(SubSeq(wmDelivered', Len(wmDelivered) + 1,
                                   Len(wmDelivered')))]_vars

\* C3: a connected peer that receives the DATA frame it expects transmits in
\* the same step one ACK for the highest seq delivered by the step
C3_AckInSameStep ==
  [][\A i \in 1..Len(chanAB) :
       (isConnected("B") /\ chanAB[i].seqNum = expectedSeqNum /\ RecvAtB(i))
         => chanBA' = Append(chanBA,
                             AckFrame((expectedSeqNum' + MAX_SEQ_NUM)
                                        % (MAX_SEQ_NUM + 1)))]_vars

\* C4: the payloads delivered by the receiver's window manager form a prefix
\* of the payloads accepted by send(): none twice, none out of order
C4_DeliveredIsPrefixOfAccepted ==
  /\ Len(wmDelivered) <= accepted
  /\ \A i \in 1..Len(wmDelivered) : wmDelivered[i].data = i

\* s lies in [a, b) on the ring of sequence numbers
InRing(s, a, b) ==
  (s - a + MAX_SEQ_NUM + 1) % (MAX_SEQ_NUM + 1)
    < (b - a + MAX_SEQ_NUM + 1) % (MAX_SEQ_NUM + 1)

\* C9: an ACK that slides the window from oldBase to newBase removes, in the
\* same step, every pending entry with a seq in [oldBase, newBase)
C9_SlideSweepsPending ==
  [][sendBase' # sendBase =>
       \A s \in DOMAIN pendingAcks' : ~InRing(s, sendBase, sendBase')]_vars

C5_WindowBound ==
  (nextSeqNum - sendBase + MAX_SEQ_NUM + 1) % (MAX_SEQ_NUM + 1) <= windowSize

\* C6: a registered frame is handed to the physical layer at most
\* MAX_RETRIES + 1 times, counting timer and NAK retransmissions
C6_RetryBound == \A s \in SeqNums : txCount[s] <= MAX_RETRIES + 1

\* C7: a frame that never gets an ACK or a NAK has been transmitted exactly
\* MAX_RETRIES + 1 times when frame_failed (retries = 3) removes its entry
C7_FourTransmissionsThenFailed ==
  (ackEvent.name = "frame_failed" /\ ackEvent.seqNum \notin nakSeen)
    => /\ txCount[ackEvent.seqNum] = MAX_RETRIES + 1
       /\ ackEvent.retries = MAX_RETRIES
       /\ ackEvent.seqNum \notin DOMAIN pendingAcks

\* C10: every pending entry has exactly one live retransmission timer, its
\* own, and every live timer belongs to a pending entry
C10_TimerCoupling ==
  /\ \A s \in DOMAIN pendingAcks :
        /\ pendingAcks[s].timeout \in DOMAIN timers
        /\ timers[pendingAcks[s].timeout] = s
  /\ \A h \in DOMAIN timers :
        /\ timers[h] \in DOMAIN pendingAcks
        /\ pendingAcks[timers[h]].timeout = h

C10_Witness ==
  /\ lastOp = "register_again"
  /\ Cardinality(DOMAIN pendingAcks) = 2
  /\ Cardinality(DOMAIN timers) = 2

\* C11: sendToNetwork called while the connection state is not CONNECTED
\* fails with NOT_CONNECTED and changes nothing: the queue, the window, the
\* pending map and their timers are as before and no frame is transmitted
C11_SendNotConnectedChangesNothing ==
  [][(callsUsed' # callsUsed /\ lastOp' = "send" /\ ~isConnected("A"))
       => /\ sendErrors' = sendErrors + 1
          /\ lastTx' = <<>>
          /\ UNCHANGED <<state, sendQueue, isTransmitting, inHand,
                         completion, accepted, sendBase, nextSeqNum,
                         windowSize, pendingAcks, timers>>]_vars

C11_Witness ==
  /\ sendErrors > 0
  /\ lastOp = "send"
  /\ state["A"] = "DISCONNECTING"
  /\ DOMAIN pendingAcks # {}

\* the payload has a frame registered for its ACK
Registered(pend, data) == \E s \in DOMAIN pend : pend[s].frame.data = data

\* C12: the completion of a send() resolves in the very step that registers
\* its DATA frame and hands it to the physical layer for the first time, and
\* in no other; once resolved it stays resolved whatever ACK, timeout or
\* failure follows
C12_ResolvedOnFirstDispatch ==
  [][\A data \in DOMAIN completion' :
       LET was == IF data \in DOMAIN completion
                  THEN completion[data] ELSE "pending"
           dispatched ==
             /\ ~Registered(pendingAcks, data)
             /\ Registered(pendingAcks', data)
             /\ \E i \in (Len(chanAB) + 1)..Len(chanAB') :
                   chanAB'[i].type = "DATA" /\ chanAB'[i].data = data
       IN  /\ was = "resolved" => completion'[data] = "resolved"
           /\ (was = "pending" /\ completion'[data] = "resolved")
                <=> dispatched]_vars

C12_Witness ==
  /\ 1 \in DOMAIN completion
  /\ completion[1] = "resolved"
  /\ 1 \in failedFrames
  /\ 2 \in DOMAIN completion
  /\ completion[2] = "resolved"
  /\ Registered(pendingAcks, 2)

\* a step that is a call of receiveFromPhysical
RxStep ==
  /\ callsUsed' = callsUsed + 1
  /\ lastOp' \notin {"connect", "accept", "disconnect", "send"}

\* the fields of the connection manager, the window manager and the
\* acknowledgment manager, and the coordinator's queue
componentVars ==
  <<state, connectionTimeout, connTimers, connAckListeners,
    rejectedListeners, connectResult, discTimers, discAckListeners,
    disconnectResult, dropTimers, heartbeatTimer, nextBeat,
    lastHeartbeatReceived, sendBase, nextSeqNum, windowSize,
    expectedSeqNum, receiveBuffer, pendingAcks, timers, sendQueue,
    isTransmitting>>

\* C13: whatever bytes receiveFromPhysical is given, no field of the
\* connection manager, the window manager or the acknowledgment manager
\* changes unless the trailing CRC of the unstuffed content equals the CRC
\* computed over CONTROL, SEQ and PAYLOAD
C13_DispatchOnlyAfterCrc ==
  [][(RxStep /\ rxCrc' # "match") => UNCHANGED componentVars]_vars

C13_Witness ==
  /\ lastOp = "frame_error"
  /\ rxCrc = "mismatch"
  /\ state["A"] = "CONNECTING"

C15_CrcErrorAnsweredByNak ==
  [][(RxStep /\ rxCrc' = "mismatch")
       => \E i \in 1..Len(lastTx') : lastTx'[i].type = "NAK"]_vars

\* C16: every change of the connection state is one of the listed
\* transitions, with the listed cause (accept passes through CONNECTING
\* inside one call, so DISCONNECTED to CONNECTED by accept is listed too; a
\* DISC received takes effect when its 100 ms timer expires)
C16_OnlyListedTransitions ==
  [][state'["A"] # state["A"]
       => <<state["A"], state'["A"], lastOp'>> \in
            {<<"DISCONNECTED", "CONNECTING", "connect">>,
             <<"DISCONNECTED", "CONNECTING", "accept">>,
             <<"DISCONNECTED", "CONNECTED", "accept">>,
             <<"CONNECTING", "CONNECTED", "CONN_ACK">>,
             <<"CONNECTING", "CONNECTED", "accept">>,
             <<"CONNECTING", "DISCONNECTED", "connection_timeout">>,
             <<"CONNECTED", "DISCONNECTING", "disconnect">>,
             <<"DISCONNECTING", "DISCONNECTED", "DISC_ACK">>,
             <<"DISCONNECTING", "DISCONNECTED", "disconnect_timeout">>,
             <<"CONNECTED", "DISCONNECTED", "DISC">>,
             <<"CONNECTED", "DISCONNECTED", "drop_timeout">>,
             <<"CONNECTED", "DISCONNECTED", "heartbeat_tick">>}]_vars

\* C17: a CONNECTED peer that receives a DISC hands a frame of type DISC_ACK
\* to the physical layer and sets the 100 ms timer
C17_DiscAnsweredByDiscAck ==
  [][(RxStep /\ lastOp' = "DISC" /\ state["A"] = "CONNECTED")
       => /\ \E i \in 1..Len(lastTx') : lastTx'[i].type = "DISC_ACK"
          /\ dropTimers' = dropTimers + 1]_vars

\* C18: when the 5 s timer of a disconnect() expires after the DISC_ACK of
\* that call was received, the expiry changes neither the connection state
\* nor the coordinator's queue, window or pending frames, and emits no
\* second disconnected event
C18_LateDisconnectTimerDoesNothing ==
  [][(lastOp' = "disconnect_timeout" /\ discTimers' # discTimers
        /\ disconnectResult[Head(discTimers)] = "resolved")
       => /\ disconnectedEvents' = disconnectedEvents
          /\ UNCHANGED componentVars]_vars

\* C19: a CONN_ACK received while CONNECTING resolves the connect() in
\* progress; the expiry of an attempt's 10 s timer fails that attempt if it
\* is pending and otherwise changes nothing; and an attempt that is still
\* pending has its timer running, so it settles at the latest when the timer
\* expires
C19_ConnectSettles ==
  [][/\ (RxStep /\ lastOp' = "CONN_ACK" /\ state["A"] = "CONNECTING")
          => /\ state'["A"] = "CONNECTED"
             /\ connectResult'[Len(connectResult)] = "resolved"
     /\ (lastOp' = "connection_timeout" /\ connTimers' # connTimers)
          => LET id == Head(connTimers)
             IN  IF connectResult[id] = "pending"
                 THEN /\ connectResult' =
                           [connectResult EXCEPT ![id] = "rejected"]
                      /\ state'["A"] = "DISCONNECTED"
                 ELSE UNCHANGED <<state, connectResult>>
     /\ \A id \in DOMAIN connectResult' :
          connectResult'[id] = "pending"
            => \E i \in DOMAIN connTimers' : connTimers'[i] = id]_vars

\* C20: a heartbeat tick of a CONNECTED peer at which 15 s or more have
\* passed since the last heartbeat was received, or since the connection
\* was established, leaves the peer DISCONNECTED
C20_HeartbeatTimeoutAtFifteenSeconds ==
  [][(lastOp' = "heartbeat_tick" /\ now' # now
        /\ state["A"] = "CONNECTED"
        /\ now' - lastHeartbeatReceived >= heartbeatTimeoutMs)
       => state'["A"] = "DISCONNECTED"]_vars

\* C21: the heartbeat interval is running exactly while the connection
\* state is CONNECTED
C21_HeartbeatTimerIffConnected ==
  heartbeatTimer <=> state["A"] = "CONNECTED"

C21_Witness ==
  /\ lastOp = "disconnect"
  /\ state["A"] = "DISCONNECTING"
  /\ ~heartbeatTimer
  /\ nextBeat > now

\* C22: a step that takes the connection state into DISCONNECTED rejects
\* the send() of every payload that was still in the send queue
C22_QueuedSendsRejectedOnDisconnect ==
  [][(state'["A"] = "DISCONNECTED" /\ state["A"] # "DISCONNECTED")
       => \A i \in 1..Len(sendQueue) :
            completion'[sendQueue[i]] = "rejected"]_vars

\* C23: a step that takes the connection state into DISCONNECTED by a DISC
\* received, a DISC_ACK received, the 5 s timer of disconnect(), the
\* heartbeat timeout or the 10 s timer of connect() leaves no pending frame,
\* no retransmission timer, an empty send queue, send_base, next_seq and
\* expected_seq at 0 and an empty receive buffer
C23_DisconnectedMeansReset ==
  [][(/\ state'["A"] = "DISCONNECTED"
      /\ state["A"] # "DISCONNECTED"
      /\ lastOp' \in {"drop_timeout", "DISC_ACK", "disconnect_timeout",
                      "heartbeat_tick", "connection_timeout"})
       => /\ pendingAcks' = EmptyMap
          /\ timers' = EmptyMap
          /\ sendQueue' = <<>>
          /\ sendBase' = 0
          /\ nextSeqNum' = 0
          /\ expectedSeqNum' = 0
          /\ \A s \in SeqNums : receiveBuffer'[s] = NoData]_vars

\* C24: a processed ACK that is accepted advances send_base by 1 to 8
\* positions modulo 16 and any other leaves it where it is, so the signed
\* modulo-16 difference between the new and the old send_base is never
\* negative
C24_SendBaseNeverBackwards ==
  [][LET d == seqNumDiff(sendBase', sendBase)
     IN  IF lastOp' = "accepted"
         THEN d \in 1..WINDOW_SIZE
         ELSE sendBase' = sendBase]_vars

C24_Witness ==
  /\ lastOp = "accepted"
  /\ sendBase = 0
  /\ nextSeqNum = 3

\* C25: one payload sent, the channel lost the first copy of DATA(seq 0) and
\* nothing else, the ACK timer expired once, and every frame transmitted
\* since has been received: the receiver has handed the payload to its
\* network layer once and the sender has received the ACK of seq 0,
\* reported with retries = 1
C25_LossRecovery ==
  (/\ accepted = 1
   /\ lost = <<[to |-> "B", frame |-> DataFrame(0, 1), timeouts |-> 0]>>
   /\ dupUsed = 0
   /\ timeoutsUsed = 1
   /\ chanAB = <<>>
   /\ chanBA = <<>>)
    => /\ upcalls = <<[data |-> 1, seqNum |-> 0]>>
       /\ ackEvent = Event("ack_received", 0, 1)
       /\ DOMAIN pendingAcks = {}

\* C26: an ACK(k) received right after another ACK(k) is reported by
\* ack_unexpected, changes neither send_base, next_seq, the pending map, its
\* timers nor the send queue, and makes the sender transmit nothing
C26_DuplicateAckChangesNothing ==
  [][(/\ lastOp = "ACK"
      /\ RxStep
      /\ lastOp' = "ACK"
      /\ ackEvent'.seqNum = ackEvent.seqNum)
       => /\ ackEvent' = Event("ack_unexpected", ackEvent.seqNum, 0)
          /\ lastTx' = <<>>
          /\ UNCHANGED <<sendBase, nextSeqNum, pendingAcks, timers,
                         sendQueue, windowSize>>]_vars

C26_Witness ==
  /\ lastOp = "ACK"
  /\ ackEvent = Event("ack_unexpected", 0, 0)
  /\ callsUsed = 4
  /\ isConnected("A")
  /\ accepted = 1
  /\ sendBase = 1
  /\ nextSeqNum = 1
  /\ DOMAIN pendingAcks = {}

\* C27: payloads are numbered in the order sendToNetwork accepted them. A
\* step that hands the DATA frame of a payload to the physical layer for the
\* first time (its send() had not resolved yet) finds no payload accepted
\* earlier still waiting in the queue or for window space, unless the step
\* transmits that one first; and the sequence numbers of the frames first
\* transmitted by one step follow one another modulo 16
C27_FirstTransmissionsInOrder ==
  [][\A i \in 1..Len(lastTx') :
       LET data == lastTx'[i].data
           waiting == {inHand} \cup {sendQueue[k] : k \in 1..Len(sendQueue)}
       IN  (/\ lastTx'[i].type = "DATA"
            /\ data \in DOMAIN completion'
            /\ data \notin DOMAIN completion \/ completion[data] = "pending")
             => /\ \A earlier \in waiting \ {NoData} :
                     earlier < data
                       => \E j \in 1..(i - 1) :
                            /\ lastTx'[j].type = "DATA"
                            /\ lastTx'[j].data = earlier
                /\ \A j \in 1..(i - 1) :
                     (lastTx'[j].type = "DATA" /\ lastTx'[j].data = data - 1)
                       => lastTx'[i].seqNum =
                            UtilsNextSeqNum(lastTx'[j].seqNum)]_vars

\* C28: parseFrame on the frame buildFrame made of a valid type, a sequence
\* number in 0..15 and a payload (empty, or holding FLAG and ESC bytes too)
\* succeeds and returns that type, that sequence number and that payload
C28_FrameRoundTrip ==
  codecOut.op = "parseFrame"
    => /\ codecOut.success
       /\ codecOut.type = codecIn.type
       /\ codecOut.seqNum = codecIn.seqNum
       /\ codecOut.data = codecIn.data

C28_Witness ==
  /\ codecOut.op = "parseFrame"
  /\ codecIn = [type |-> FrameType("HEARTBEAT"), seqNum |-> 15,
                data |-> <<FLAG, ESC>>]
  /\ codecOut.success
  /\ codecOut.data = <<FLAG, ESC>>
  /\ Len(codecOut.bytes) >= 10

\* C29: bitUnstuff on the bytes bitStuff made of x succeeds and returns x;
\* those bytes hold no FLAG and are at most twice as many as the bytes of x
C29_StuffingRoundTrip ==
  codecOut.op = "bitUnstuff"
    => /\ codecOut.success
       /\ codecOut.data = codecIn.data
       /\ \A i \in 1..Len(codecOut.bytes) : codecOut.bytes[i] # FLAG
       /\ Len(codecOut.bytes) <= 2 * Len(codecIn.data)

C29_Witness ==
  /\ codecOut.op = "bitUnstuff"
  /\ codecIn.data = <<FLAG, ESC>>
  /\ codecOut.bytes = <<ESC, 94, ESC, 93>>
  /\ codecOut.success
  /\ codecOut.data = <<FLAG, ESC>>

\* C30: a NAK received for a pending seq counts as a retry. The step that
\* handles it either gives the frame up or raises the retry count of its
\* entry by one (never lowering it) and hands the stored frame to the
\* physical layer once more
C30_NakCountsAsRetry ==
  [][\A seqNum \in AckSeqs :
       (/\ lastOp' = "nak"
        /\ seqNum \in DOMAIN pendingAcks
        /\ ackEvent'.name = "nak_received"
        /\ ackEvent'.seqNum = seqNum)
         => \/ seqNum \notin DOMAIN pendingAcks'
            \/ /\ pendingAcks'[seqNum].retries
                   = pendingAcks[seqNum].retries + 1
               /\ txCount'[seqNum] = txCount[seqNum] + 1]_vars

\* C31: a DATA frame whose seq lies 1 to 8 positions behind expected_seq
\* (modulo 16) is classified as a duplicate: nothing is stored or delivered
\* and the coordinator sends an ACK for that seq again; a DATA frame whose
\* seq lies 0 to window_size - 1 positions ahead is accepted
C31_DuplicateHalfOfRing ==
  [][callsUsed' = callsUsed + 1
       => LET seqNum == rxData'.seqNum
              behind == (expectedSeqNum - seqNum + MAX_SEQ_NUM + 1)
                          % (MAX_SEQ_NUM + 1)
              ahead == (seqNum - expectedSeqNum + MAX_SEQ_NUM + 1)
                         % (MAX_SEQ_NUM + 1)
          IN  /\ behind \in 1..8
                   => /\ lastOp' = "duplicate"
                      /\ lastTx' = <<AckFrame(seqNum)>>
                      /\ UNCHANGED <<recvVars, wmDelivered, upcalls>>
              /\ ahead \in 0..(windowSize - 1)
                   => lastOp' \in {"delivered", "buffered"}]_vars

\* the number of consecutive filled slots of buf starting at slot first
FilledRun(buf, first) ==
  CHOOSE n \in 0..(MAX_SEQ_NUM + 1) :
    /\ \A i \in 0..(n - 1) : buf[(first + i) % (MAX_SEQ_NUM + 1)] # NoData
    /\ n = MAX_SEQ_NUM + 1 \/ buf[(first + n) % (MAX_SEQ_NUM + 1)] = NoData

\* C32: a DATA frame inside the receive window but ahead of expected_seq is
\* stored and reported as buffered; expected_seq stays, nothing is delivered
\* and no ACK is sent. When the frame with seq = expected_seq arrives the
\* window manager returns exactly the run of filled slots that starts at
\* expected_seq, in increasing seq order modulo 16, clears those slots and
\* leaves expected_seq at the first empty slot
C32_BufferThenDeliverRun ==
  [][callsUsed' = callsUsed + 1
       => LET seqNum == rxData'.seqNum
              ahead == (seqNum - expectedSeqNum + MAX_SEQ_NUM + 1)
                         % (MAX_SEQ_NUM + 1)
              stored == [receiveBuffer EXCEPT ![seqNum] = rxData'.data]
              n == FilledRun(stored, expectedSeqNum)
              slot(i) == (expectedSeqNum + i - 1) % (MAX_SEQ_NUM + 1)
          IN  /\ ahead \in 1..(windowSize - 1)
                   => /\ lastOp' = "buffered"
                      /\ receiveBuffer' = stored
                      /\ lastTx' = <<>>
                      /\ UNCHANGED <<expectedSeqNum, wmDelivered, upcalls>>
              /\ ahead = 0
                   => /\ lastOp' = "delivered"
                      /\ wmDelivered'
                           = wmDelivered
                               \o [i \in 1..n |-> [seqNum |-> slot(i),
                                                   data |-> stored[slot(i)]]]
                      /\ receiveBuffer'
                           = [s \in SeqNums |->
                                IF \E i \in 1..n : s = slot(i)
                                THEN NoData ELSE stored[s]]
                      /\ expectedSeqNum' = slot(n + 1)
                      /\ receiveBuffer'[expectedSeqNum'] = NoData]_vars

\* frames 15 and 0 were buffered ahead of 14; 14 arrived and the three were
\* returned in order across the wrap
C32_Witness ==
  /\ lastOp = "delivered"
  /\ callsUsed = 3
  /\ rxData = DataFrame(14, 3)
  /\ expectedSeqNum = 1
  /\ SubSeq(wmDelivered, 15, 17)
       = <<[seqNum |-> 14, data |-> 3], [seqNum |-> 15, data |-> 1],
           [seqNum |-> 0, data |-> 2]>>
  /\ \A s \in SeqNums : receiveBuffer[s] = NoData

\* C33: while the send window is full no sequence number is acquired and no
\* payload is transmitted for the first time. Once an ACK has slid the window
\* of a CONNECTED peer, a send blocked on the full window is eventually
\* resumed (or the peer leaves CONNECTED first), and the step that resumes
\* it transmits the blocked payload and then queued payloads in queue order
\* under consecutive sequence numbers
C33_BackPressureAndResume ==
  /\ [][(/\ ~canSend(sendBase, nextSeqNum, windowSize)
         /\ sendBase' = sendBase)
          => /\ nextSeqNum' = nextSeqNum \/ (nextSeqNum' = 0 /\ sendBase' = 0)
             /\ DOMAIN pendingAcks' \subseteq DOMAIN pendingAcks
             /\ \A d \in DOMAIN completion :
                  completion'[d] = "resolved" => completion[d] = "resolved"]_vars
  /\ [][(lastOp' = "poll" /\ isConnected("A"))
          => \E k \in 0..Len(sendQueue) :
               /\ lastTx' = [i \in 1..(k + 1) |->
                               DataFrame((nextSeqNum + i - 1)
                                           % (MAX_SEQ_NUM + 1),
                                         IF i = 1 THEN inHand
                                         ELSE sendQueue[i - 1])]
               /\ \/ /\ k = Len(sendQueue)
                     /\ inHand' = NoData /\ sendQueue' = <<>>
                  \/ /\ k < Len(sendQueue)
                     /\ inHand' = sendQueue[k + 1]
                     /\ sendQueue' = SubSeq(sendQueue, k + 2, Len(sendQueue))
                     /\ ~canSend(sendBase', nextSeqNum', windowSize')]_vars
  /\ (/\ inHand # NoData
      /\ lastOp = "ACK"
      /\ canSend(sendBase, nextSeqNum, windowSize)
      /\ isConnected("A"))
       ~> (lastOp = "poll" \/ ~isConnected("A"))

\* two sends waited on the full window; ACK(1) slid it by two and the poll
\* transmitted both, in order
C33_Witness ==
  /\ lastOp = "poll"
  /\ isConnected("A")
  /\ sendBase = 2
  /\ lastTx = <<DataFrame(8, 9), DataFrame(9, 10)>>
  /\ inHand = NoData
  /\ sendQueue = <<>>
  /\ completion[9] = "resolved"
  /\ completion[10] = "resolved"

\* C34: adjust(rtt, loss_rate) halves the window size (rounding down, not
\* below 1) when the loss is above 5 %, shrinks it by one (not below 1) when
\* the loss is above 1 % and at most 5 %, and grows it by one (not above 8)
\* when rtt is below 100 ms and the loss below 0.1 %; the window size stays
\* within 1..8
C34_AdjustRules ==
  /\ [](windowSize \in 1..8)
  /\ [][lastOp' = "adjust"
          => LET loss == adjustIn'.lossRate
                 rtt == adjustIn'.rtt
             IN  /\ loss > 500
                      => windowSize' = IF windowSize \div 2 > 1
                                       THEN windowSize \div 2 ELSE 1
                 /\ (loss > 100 /\ loss <= 500)
                      => windowSize' = IF windowSize - 1 > 1
                                       THEN windowSize - 1 ELSE 1
                 /\ (rtt < 100 /\ loss < 10)
                      => windowSize' = IF windowSize + 1 < 8
                                       THEN windowSize + 1 ELSE 8]_vars

\* C35: while the connection state is not CONNECTED no DATA frame carrying
\* a payload of the network layer is handed to the physical layer, first
\* transmission or retransmission, and no pending-ACK entry is registered
C35_NoDataUnlessConnected ==
  [][(~isConnected("A") /\ state'["A"] # "CONNECTED")
       => /\ \A i \in 1..Len(lastTx') :
               lastTx'[i].type = "DATA" => lastTx'[i].data \notin 1..FullPayloads
          /\ DOMAIN pendingAcks' \subseteq DOMAIN pendingAcks]_vars

C37_AckNakIgnoredUnlessConnected ==
  /\ [][(RxStep /\ lastOp' \in {"ACK", "NAK"} /\ ~isConnected("A"))
          => /\ UNCHANGED <<sendBase, nextSeqNum, windowSize, pendingAcks>>
             /\ lastTx' = <<>>]_vars
  /\ [][(~isConnected("A") /\ state'["A"] = "CONNECTED")
          => sendBase' = 0 /\ nextSeqNum' = 0 /\ expectedSeqNum' = 0]_vars

\* C38: a send() whose payload exceeds MAX_DATA fails for its caller and
\* leaves the sender as it was: next_seq is not advanced, no pending entry
\* is registered and nothing is transmitted
C38_OversizeSendChangesNothing ==
  [][(lastOp' = "send_oversize" /\ isConnected("A"))
       => /\ completion'[OversizeData] = "rejected"
          /\ lastTx' = <<>>
          /\ UNCHANGED <<nextSeqNum, sendBase, pendingAcks, timers>>]_vars

\* C39: accept() outside DISCONNECTED transmits no CONN_ACK and leaves the
\* connection state as it is; a connect() in progress is neither aborted
\* nor failed by it
C39_AcceptOutsideDisconnected ==
  [][(lastOp' = "accept" /\ state["A"] # "DISCONNECTED")
       => /\ lastTx' = <<>>
          /\ state' = state
          /\ connectResult' = connectResult]_vars

\* C40: between two CONNECTED peers with nothing lost, the HEARTBEAT sent in
\* reply to a received HEARTBEAT is not itself answered: with only A's interval
\* firing, every HEARTBEAT that reaches A is a reply, and A sends nothing
\* on receiving it
C40_HeartbeatReplyNotAnswered ==
  [][(lastOp' = "heartbeat_at_A" /\ Head(chanBA) = HeartbeatFrame)
       => (lastTx' = <<>> /\ chanAB' = chanAB)]_vars

====
